---- MODULE Spec2Model ----
(***************************************************************************)
(* The identifier-expansion scripts of Ada83.  Each script reads the C     *)
(* source of the compiler (ada83.c), applies a fixed list of re.sub        *)
(* substitutions to it and writes the result back or prints it.  The       *)
(* module models the text as a sequence of characters, re.sub as a         *)
(* backtracking matcher, each script's substitutions as a table taken row  *)
(* by row from its source, and a run of a script as one action.            *)
(***************************************************************************)
EXTENDS Integers, Sequences, FiniteSets, TLC

(***************************************************************************)
(* Text.  A source file is a sequence of characters (one-character         *)
(* strings).  The scripts read the whole file into a Python str and hand   *)
(* it to re.sub; the classes below are the character classes of Python's   *)
(* re module on the characters the model uses.                             *)
(***************************************************************************)
Lower == {"a","b","c","d","e","f","g","h","i","j","k","l","m",
          "n","o","p","q","r","s","t","u","v","w","x","y","z"}
Upper == {"A","B","C","D","E","F","G","H","I","J","K","L","M",
          "N","O","P","Q","R","S","T","U","V","W","X","Y","Z"}
Digit == {"0","1","2","3","4","5","6","7","8","9"}
\* \w
Word == Lower \cup Upper \cup Digit \cup {"_"}
\* \s
Space == {" ", "\t", "\n"}

IsWordAt(t, i) == i >= 1 /\ i <= Len(t) /\ t[i] \in Word

\* \b : the characters on the two sides of position i (between t[i-1] and
\* t[i]) differ in being word characters; outside the text counts as non-word.
AtBoundary(t, i) == IsWordAt(t, i - 1) # IsWordAt(t, i)

(***************************************************************************)
(* Patterns.  A pattern is a sequence of elements <<kind, arg>>:           *)
(*   "lit" s      the literal text s (a sequence of characters)            *)
(*   "in" S       one character of the class S        [..]  \w  \s         *)
(*   "notin" S    one character outside S             [^..] and . (DOTALL) *)
(*   "star" S     greedy  [S]*       "nstar" S   greedy [^S]*              *)
(*   "lazy" S     lazy    [S]*?      "nlazy" S   lazy   [^S]*?             *)
(*   "b"          \b                                                       *)
(*   "open" n / "close" n    the parentheses of capture group n            *)
(*   "nla" alts   (?!a1|a2|..)       "pla" alts  (?=a1|a2|..)              *)
(* L(s) is the literal text s, WB is \b.                                   *)
(***************************************************************************)
L(s) == << <<"lit", s>> >>
WB == << <<"b", {}>> >>

\* A replacement template: literal text and group references \n.
R(s) == << <<"lit", s>> >>
G(n) == << <<"g", n>> >>

NoMatch == [end |-> 0, caps |-> <<>>]

Min(S) == CHOOSE x \in S : \A y \in S : x <= y
Max(S) == CHOOSE x \in S : \A y \in S : x >= y

\* The number of consecutive characters from position i on that are in S
\* (neg = FALSE) or outside S (neg = TRUE).
RunLen(t, i, S, neg) ==
  LET stops == {j \in i..Len(t) : (t[j] \in S) = neg}
  IN  IF stops = {} THEN Len(t) - i + 1 ELSE Min(stops) - i

(***************************************************************************)
(* Match(t, i, p, k, caps): the backtracking matcher of re.  It matches    *)
(* the elements p[k..] against t from position i and returns the first     *)
(* match in re's order of preference (greedy: longest repetition first,    *)
(* lazy: shortest first) as [end, caps]: end is the position after the     *)
(* match, caps[n] the <<from, to>> span of group n; end = 0 is no match.   *)
(***************************************************************************)
RECURSIVE Match(_, _, _, _, _)

\* Some alternative of a lookahead matches at position i.
AnyAlt(t, i, alts) ==
  \E a \in 1..Len(alts) : Match(t, i, alts[a], 1, <<>>).end # 0

\* A repetition that may take 0..max characters: the lengths after which the
\* rest of the pattern matches; greedy takes the longest, lazy the shortest.
Repeat(t, i, p, k, caps, max, greedy) ==
  LET ok == {n \in 0..max : Match(t, i + n, p, k + 1, caps).end # 0}
  IN  IF ok = {} THEN NoMatch
      ELSE Match(t, i + (IF greedy THEN Max(ok) ELSE Min(ok)), p, k + 1, caps)

Match(t, i, p, k, caps) ==
  IF k > Len(p) THEN [end |-> i, caps |-> caps]
  ELSE
    LET e == p[k]
        kind == e[1]
    IN  CASE kind = "lit" ->
               IF /\ i + Len(e[2]) - 1 <= Len(t)
                  /\ SubSeq(t, i, i + Len(e[2]) - 1) = e[2]
               THEN Match(t, i + Len(e[2]), p, k + 1, caps) ELSE NoMatch
          [] kind = "in" ->
               IF i <= Len(t) /\ t[i] \in e[2]
               THEN Match(t, i + 1, p, k + 1, caps) ELSE NoMatch
          [] kind = "notin" ->
               IF i <= Len(t) /\ t[i] \notin e[2]
               THEN Match(t, i + 1, p, k + 1, caps) ELSE NoMatch
          [] kind = "star" ->
               Repeat(t, i, p, k, caps, RunLen(t, i, e[2], FALSE), TRUE)
          [] kind = "nstar" ->
               Repeat(t, i, p, k, caps, RunLen(t, i, e[2], TRUE), TRUE)
          [] kind = "lazy" ->
               Repeat(t, i, p, k, caps, RunLen(t, i, e[2], FALSE), FALSE)
          [] kind = "nlazy" ->
               Repeat(t, i, p, k, caps, RunLen(t, i, e[2], TRUE), FALSE)
          [] kind = "b" ->
               IF AtBoundary(t, i) THEN Match(t, i, p, k + 1, caps) ELSE NoMatch
          [] kind = "open" ->
               Match(t, i, p, k + 1, Append(caps, <<i, i>>))
          [] kind = "close" ->
               Match(t, i, p, k + 1, [caps EXCEPT ![e[2]] = <<@[1], i>>])
          [] kind = "nla" ->
               IF AnyAlt(t, i, e[2]) THEN NoMatch
               ELSE Match(t, i, p, k + 1, caps)
          [] kind = "pla" ->
               IF AnyAlt(t, i, e[2]) THEN Match(t, i, p, k + 1, caps)
               ELSE NoMatch

\* The text a replacement template stands for, given a match's groups.
RECURSIVE Expand(_, _, _, _)
Expand(rep, t, caps, j) ==
  IF j > Len(rep) THEN <<>>
  ELSE (IF rep[j][1] = "lit" THEN rep[j][2]
        ELSE SubSeq(t, caps[rep[j][2]][1], caps[rep[j][2]][2] - 1))
       \o Expand(rep, t, caps, j + 1)

(***************************************************************************)
(* re.sub(pattern, repl, text): the matches replaced are the leftmost      *)
(* non-overlapping ones: the first match starts at the least position      *)
(* where the pattern matches, the next one at the least such position at   *)
(* or after the end of the previous match.  Whether the pattern matches at *)
(* a position depends on the original text alone (\b and lookaheads see    *)
(* all of it).  Every pattern of the scripts consumes at least one         *)
(* character.  Text between matches is copied.                             *)
(***************************************************************************)
\* A pattern that begins with literal text can only match where the first
\* character of that text stands.
MatchStarts(t, p) ==
  LET first == IF Len(p) > 0 /\ p[1][1] = "lit" THEN p[1][2][1] ELSE ""
  IN  {j \in 1..Len(t) : /\ first = "" \/ t[j] = first
                         /\ Match(t, j, p, 1, <<>>).end # 0}

RECURSIVE SubFrom(_, _, _, _, _)
SubFrom(t, i, p, rep, starts) ==
  LET rest == {j \in starts : j >= i}
  IN  IF rest = {} THEN SubSeq(t, i, Len(t))
      ELSE LET s == Min(rest)
               r == Match(t, s, p, 1, <<>>)
           IN  SubSeq(t, i, s - 1) \o Expand(rep, t, r.caps, 1)
                 \o SubFrom(t, r.end, p, rep, starts)

\* The literal text s stands somewhere in t.
Occurs(s, t) ==
  \E j \in 1..(Len(t) - Len(s) + 1) :
     t[j] = s[1] /\ SubSeq(t, j, j + Len(s) - 1) = s

\* A pattern matches only in a text that holds each of its literal texts.
Possible(t, p) == \A k \in 1..Len(p) : p[k][1] = "lit" => Occurs(p[k][2], t)

Sub(p, rep, t) ==
  IF ~Possible(t, p) THEN t
  ELSE LET starts == MatchStarts(t, p)
       IN  IF starts = {} THEN t ELSE SubFrom(t, 1, p, rep, starts)

\* code = re.sub(p1, r1, code); code = re.sub(p2, r2, code); ... for the
\* rules lo..hi of a table, in order.
RECURSIVE ApplyRange(_, _, _, _)
ApplyRange(rules, lo, hi, t) ==
  IF lo > hi THEN t
  ELSE IF lo = hi THEN Sub(rules[lo][1], rules[lo][2], t)
  ELSE LET mid == (lo + hi) \div 2
           u == ApplyRange(rules, lo, mid, t)
       IN  IF Len(u) = 0 THEN u ELSE ApplyRange(rules, mid + 1, hi, u)

ApplyRules(rules, t) == ApplyRange(rules, 1, Len(rules), t)

(***************************************************************************)
(* The rule tables: one row <<pattern, replacement>> for each re.sub call  *)
(* of a script, in the order the script makes the calls.                   *)
(***************************************************************************)
\* fix_field_accesses.py, lines 14-151 (fix_field_accesses)
FFA_Rules ==
  <<
    \* line 14: '->d\b' -> '->digits'
    <<L(<<"-",">","d">>) \o WB,
      R(<<"-",">","d","i","g","i","t","s">>)>>,
    \* line 15: '\.d\b' -> '.digits'
    <<L(<<".","d">>) \o WB,
      R(<<".","d","i","g","i","t","s">>)>>,
    \* line 16: '->n\b' -> '->count'
    <<L(<<"-",">","n">>) \o WB,
      R(<<"-",">","c","o","u","n","t">>)>>,
    \* line 17: '\.n\b' -> '.count'
    <<L(<<".","n">>) \o WB,
      R(<<".","c","o","u","n","t">>)>>,
    \* line 18: '->c\b' -> '->capacity'
    <<L(<<"-",">","c">>) \o WB,
      R(<<"-",">","c","a","p","a","c","i","t","y">>)>>,
    \* line 19: '\.c\b' -> '.capacity'
    <<L(<<".","c">>) \o WB,
      R(<<".","c","a","p","a","c","i","t","y">>)>>,
    \* line 20: '->s\b' -> '->is_negative'
    <<L(<<"-",">","s">>) \o WB,
      R(<<"-",">","i","s","_","n","e","g","a","t","i","v","e">>)>>,
    \* line 21: '\.s\b' -> '.is_negative'
    <<L(<<".","s">>) \o WB,
      R(<<".","i","s","_","n","e","g","a","t","i","v","e">>)>>,
    \* line 30: '->lo\b' -> '->low_bound'
    <<L(<<"-",">","l","o">>) \o WB,
      R(<<"-",">","l","o","w","_","b","o","u","n","d">>)>>,
    \* line 31: '\.lo\b' -> '.low_bound'
    <<L(<<".","l","o">>) \o WB,
      R(<<".","l","o","w","_","b","o","u","n","d">>)>>,
    \* line 32: '->hi\b' -> '->high_bound'
    <<L(<<"-",">","h","i">>) \o WB,
      R(<<"-",">","h","i","g","h","_","b","o","u","n","d">>)>>,
    \* line 33: '\.hi\b' -> '.high_bound'
    <<L(<<".","h","i">>) \o WB,
      R(<<".","h","i","g","h","_","b","o","u","n","d">>)>>,
    \* line 36: '->m\b' -> '->mutex'
    <<L(<<"-",">","m">>) \o WB,
      R(<<"-",">","m","u","t","e","x">>)>>,
    \* line 37: '\.m\b' -> '.mutex'
    <<L(<<".","m">>) \o WB,
      R(<<".","m","u","t","e","x">>)>>,
    \* line 38: '->cnt\b' -> '->count'
    <<L(<<"-",">","c","n","t">>) \o WB,
      R(<<"-",">","c","o","u","n","t">>)>>,
    \* line 39: '\.cnt\b' -> '.count'
    <<L(<<".","c","n","t">>) \o WB,
      R(<<".","c","o","u","n","t">>)>>,
    \* line 40: '->mx\b' -> '->maximum'
    <<L(<<"-",">","m","x">>) \o WB,
      R(<<"-",">","m","a","x","i","m","u","m">>)>>,
    \* line 41: '\.mx\b' -> '.maximum'
    <<L(<<".","m","x">>) \o WB,
      R(<<".","m","a","x","i","m","u","m">>)>>,
    \* line 44: '->t\b' -> '->thread'
    <<L(<<"-",">","t">>) \o WB,
      R(<<"-",">","t","h","r","e","a","d">>)>>,
    \* line 45: '\.t\b' -> '.thread'
    <<L(<<".","t">>) \o WB,
      R(<<".","t","h","r","e","a","d">>)>>,
    \* line 46: '->q\b' -> '->queue'
    <<L(<<"-",">","q">>) \o WB,
      R(<<"-",">","q","u","e","u","e">>)>>,
    \* line 47: '\.q\b' -> '.queue'
    <<L(<<".","q">>) \o WB,
      R(<<".","q","u","e","u","e">>)>>,
    \* line 50: '->b\b' -> '->base'
    <<L(<<"-",">","b">>) \o WB,
      R(<<"-",">","b","a","s","e">>)>>,
    \* line 51: '\.b\b' -> '.base'
    <<L(<<".","b">>) \o WB,
      R(<<".","b","a","s","e">>)>>,
    \* line 52: '->p\b' -> '->pointer'
    <<L(<<"-",">","p">>) \o WB,
      R(<<"-",">","p","o","i","n","t","e","r">>)>>,
    \* line 53: '\.p\b' -> '.pointer'
    <<L(<<".","p">>) \o WB,
      R(<<".","p","o","i","n","t","e","r">>)>>,
    \* line 54: '->e\b' -> '->end'
    <<L(<<"-",">","e">>) \o WB,
      R(<<"-",">","e","n","d">>)>>,
    \* line 55: '\.e\b' -> '.end'
    <<L(<<".","e">>) \o WB,
      R(<<".","e","n","d">>)>>,
    \* line 58: '->s\b' -> '->string'
    <<L(<<"-",">","s">>) \o WB,
      R(<<"-",">","s","t","r","i","n","g">>)>>,
    \* line 59: '->n\b' -> '->length'
    <<L(<<"-",">","n">>) \o WB,
      R(<<"-",">","l","e","n","g","t","h">>)>>,
    \* line 62: '->l\b' -> '->line'
    <<L(<<"-",">","l">>) \o WB,
      R(<<"-",">","l","i","n","e">>)>>,
    \* line 63: '\.l\b' -> '.line'
    <<L(<<".","l">>) \o WB,
      R(<<".","l","i","n","e">>)>>,
    \* line 64: '->f\b' -> '->filename'
    <<L(<<"-",">","f">>) \o WB,
      R(<<"-",">","f","i","l","e","n","a","m","e">>)>>,
    \* line 65: '\.f\b' -> '.filename'
    <<L(<<".","f">>) \o WB,
      R(<<".","f","i","l","e","n","a","m","e">>)>>,
    \* line 68: '->iv\b' -> '->integer_value'
    <<L(<<"-",">","i","v">>) \o WB,
      R(<<"-",">","i","n","t","e","g","e","r","_","v","a","l","u","e">>)>>,
    \* line 69: '\.iv\b' -> '.integer_value'
    <<L(<<".","i","v">>) \o WB,
      R(<<".","i","n","t","e","g","e","r","_","v","a","l","u","e">>)>>,
    \* line 70: '->fv\b' -> '->float_value'
    <<L(<<"-",">","f","v">>) \o WB,
      R(<<"-",">","f","l","o","a","t","_","v","a","l","u","e">>)>>,
    \* line 71: '\.fv\b' -> '.float_value'
    <<L(<<".","f","v">>) \o WB,
      R(<<".","f","l","o","a","t","_","v","a","l","u","e">>)>>,
    \* line 72: '->ui\b' -> '->unsigned_integer'
    <<L(<<"-",">","u","i">>) \o WB,
      R(<<"-",">","u","n","s","i","g","n","e","d","_","i","n","t","e","g","e","r">>)>>,
    \* line 73: '\.ui\b' -> '.unsigned_integer'
    <<L(<<".","u","i">>) \o WB,
      R(<<".","u","n","s","i","g","n","e","d","_","i","n","t","e","g","e","r">>)>>,
    \* line 74: '->ur\b' -> '->unsigned_rational'
    <<L(<<"-",">","u","r">>) \o WB,
      R(<<"-",">","u","n","s","i","g","n","e","d","_","r","a","t","i","o","n","a","l">>)>>,
    \* line 75: '\.ur\b' -> '.unsigned_rational'
    <<L(<<".","u","r">>) \o WB,
      R(<<".","u","n","s","i","g","n","e","d","_","r","a","t","i","o","n","a","l">>)>>,
    \* line 76: '->lit\b' -> '->literal'
    <<L(<<"-",">","l","i","t">>) \o WB,
      R(<<"-",">","l","i","t","e","r","a","l">>)>>,
    \* line 77: '\.lit\b' -> '.literal'
    <<L(<<".","l","i","t">>) \o WB,
      R(<<".","l","i","t","e","r","a","l">>)>>,
    \* line 80: '->ln\b' -> '->line_number'
    <<L(<<"-",">","l","n">>) \o WB,
      R(<<"-",">","l","i","n","e","_","n","u","m","b","e","r">>)>>,
    \* line 81: '\.ln\b' -> '.line_number'
    <<L(<<".","l","n">>) \o WB,
      R(<<".","l","i","n","e","_","n","u","m","b","e","r">>)>>,
    \* line 82: '->cl\b' -> '->column'
    <<L(<<"-",">","c","l">>) \o WB,
      R(<<"-",">","c","o","l","u","m","n">>)>>,
    \* line 83: '\.cl\b' -> '.column'
    <<L(<<".","c","l">>) \o WB,
      R(<<".","c","o","l","u","m","n">>)>>,
    \* line 84: '->pt\b' -> '->previous_token'
    <<L(<<"-",">","p","t">>) \o WB,
      R(<<"-",">","p","r","e","v","i","o","u","s","_","t","o","k","e","n">>)>>,
    \* line 85: '\.pt\b' -> '.previous_token'
    <<L(<<".","p","t">>) \o WB,
      R(<<".","p","r","e","v","i","o","u","s","_","t","o","k","e","n">>)>>,
    \* line 90: '->nm\b' -> '->name'
    <<L(<<"-",">","n","m">>) \o WB,
      R(<<"-",">","n","a","m","e">>)>>,
    \* line 91: '\.nm\b' -> '.name'
    <<L(<<".","n","m">>) \o WB,
      R(<<".","n","a","m","e">>)>>,
    \* line 92: '->bb\b' -> '->basic_block'
    <<L(<<"-",">","b","b">>) \o WB,
      R(<<"-",">","b","a","s","i","c","_","b","l","o","c","k">>)>>,
    \* line 93: '\.bb\b' -> '.basic_block'
    <<L(<<".","b","b">>) \o WB,
      R(<<".","b","a","s","i","c","_","b","l","o","c","k">>)>>,
    \* line 98: '->pth\b' -> '->path'
    <<L(<<"-",">","p","t","h">>) \o WB,
      R(<<"-",">","p","a","t","h">>)>>,
    \* line 99: '\.pth\b' -> '.path'
    <<L(<<".","p","t","h">>) \o WB,
      R(<<".","p","a","t","h">>)>>,
    \* line 100: '->sp\b' -> '->spec'
    <<L(<<"-",">","s","p">>) \o WB,
      R(<<"-",">","s","p","e","c">>)>>,
    \* line 101: '\.sp\b' -> '.spec'
    <<L(<<".","s","p">>) \o WB,
      R(<<".","s","p","e","c">>)>>,
    \* line 102: '->bd\b' -> '->body'
    <<L(<<"-",">","b","d">>) \o WB,
      R(<<"-",">","b","o","d","y">>)>>,
    \* line 103: '\.bd\b' -> '.body'
    <<L(<<".","b","d">>) \o WB,
      R(<<".","b","o","d","y">>)>>,
    \* line 104: '->wth\b' -> '->with_list'
    <<L(<<"-",">","w","t","h">>) \o WB,
      R(<<"-",">","w","i","t","h","_","l","i","s","t">>)>>,
    \* line 105: '\.wth\b' -> '.with_list'
    <<L(<<".","w","t","h">>) \o WB,
      R(<<".","w","i","t","h","_","l","i","s","t">>)>>,
    \* line 106: '->elb\b' -> '->elaborates'
    <<L(<<"-",">","e","l","b">>) \o WB,
      R(<<"-",">","e","l","a","b","o","r","a","t","e","s">>)>>,
    \* line 107: '\.elb\b' -> '.elaborates'
    <<L(<<".","e","l","b">>) \o WB,
      R(<<".","e","l","a","b","o","r","a","t","e","s">>)>>,
    \* line 108: '->ts\b' -> '->timestamp'
    <<L(<<"-",">","t","s">>) \o WB,
      R(<<"-",">","t","i","m","e","s","t","a","m","p">>)>>,
    \* line 109: '\.ts\b' -> '.timestamp'
    <<L(<<".","t","s">>) \o WB,
      R(<<".","t","i","m","e","s","t","a","m","p">>)>>,
    \* line 110: '->cmpl\b' -> '->complete'
    <<L(<<"-",">","c","m","p","l">>) \o WB,
      R(<<"-",">","c","o","m","p","l","e","t","e">>)>>,
    \* line 111: '\.cmpl\b' -> '.complete'
    <<L(<<".","c","m","p","l">>) \o WB,
      R(<<".","c","o","m","p","l","e","t","e">>)>>,
    \* line 114: '->fp\b' -> '->formal_parameters'
    <<L(<<"-",">","f","p">>) \o WB,
      R(<<"-",">","f","o","r","m","a","l","_","p","a","r","a","m","e","t","e","r","s">>)>>,
    \* line 115: '\.fp\b' -> '.formal_parameters'
    <<L(<<".","f","p">>) \o WB,
      R(<<".","f","o","r","m","a","l","_","p","a","r","a","m","e","t","e","r","s">>)>>,
    \* line 116: '->dc\b' -> '->declarations'
    <<L(<<"-",">","d","c">>) \o WB,
      R(<<"-",">","d","e","c","l","a","r","a","t","i","o","n","s">>)>>,
    \* line 117: '\.dc\b' -> '.declarations'
    <<L(<<".","d","c">>) \o WB,
      R(<<".","d","e","c","l","a","r","a","t","i","o","n","s">>)>>,
    \* line 118: '->un\b' -> '->unit'
    <<L(<<"-",">","u","n">>) \o WB,
      R(<<"-",">","u","n","i","t">>)>>,
    \* line 119: '\.un\b' -> '.unit'
    <<L(<<".","u","n">>) \o WB,
      R(<<".","u","n","i","t">>)>>,
    \* line 122: '->ty\b' -> '->type_info'
    <<L(<<"-",">","t","y">>) \o WB,
      R(<<"-",">","t","y","p","e","_","i","n","f","o">>)>>,
    \* line 123: '\.ty\b' -> '.type_info'
    <<L(<<".","t","y">>) \o WB,
      R(<<".","t","y","p","e","_","i","n","f","o">>)>>,
    \* line 124: '\.er\b' -> '.enum_rep'
    <<L(<<".","e","r">>) \o WB,
      R(<<".","e","n","u","m","_","r","e","p">>)>>,
    \* line 125: '\.ad\b' -> '.address_clause'
    <<L(<<".","a","d">>) \o WB,
      R(<<".","a","d","d","r","e","s","s","_","c","l","a","u","s","e">>)>>,
    \* line 126: '\.rr\b' -> '.record_rep'
    <<L(<<".","r","r">>) \o WB,
      R(<<".","r","e","c","o","r","d","_","r","e","p">>)>>,
    \* line 127: '\.im\b' -> '.import_clause'
    <<L(<<".","i","m">>) \o WB,
      R(<<".","i","m","p","o","r","t","_","c","l","a","u","s","e">>)>>,
    \* line 128: '->po\b' -> '->position'
    <<L(<<"-",">","p","o">>) \o WB,
      R(<<"-",">","p","o","s","i","t","i","o","n">>)>>,
    \* line 129: '\.po\b' -> '.position'
    <<L(<<".","p","o">>) \o WB,
      R(<<".","p","o","s","i","t","i","o","n">>)>>,
    \* line 130: '->cp\b' -> '->components'
    <<L(<<"-",">","c","p">>) \o WB,
      R(<<"-",">","c","o","m","p","o","n","e","n","t","s">>)>>,
    \* line 131: '\.cp\b' -> '.components'
    <<L(<<".","c","p">>) \o WB,
      R(<<".","c","o","m","p","o","n","e","n","t","s">>)>>,
    \* line 132: '->lang\b' -> '->language'
    <<L(<<"-",">","l","a","n","g">>) \o WB,
      R(<<"-",">","l","a","n","g","u","a","g","e">>)>>,
    \* line 133: '\.lang\b' -> '.language'
    <<L(<<".","l","a","n","g">>) \o WB,
      R(<<".","l","a","n","g","u","a","g","e">>)>>,
    \* line 134: '->ext\b' -> '->external_name'
    <<L(<<"-",">","e","x","t">>) \o WB,
      R(<<"-",">","e","x","t","e","r","n","a","l","_","n","a","m","e">>)>>,
    \* line 135: '\.ext\b' -> '.external_name'
    <<L(<<".","e","x","t">>) \o WB,
      R(<<".","e","x","t","e","r","n","a","l","_","n","a","m","e">>)>>,
    \* line 138: '->lx\b' -> '->lexer'
    <<L(<<"-",">","l","x">>) \o WB,
      R(<<"-",">","l","e","x","e","r">>)>>,
    \* line 139: '\.lx\b' -> '.lexer'
    <<L(<<".","l","x">>) \o WB,
      R(<<".","l","e","x","e","r">>)>>,
    \* line 140: '->cr\b' -> '->current_token'
    <<L(<<"-",">","c","r">>) \o WB,
      R(<<"-",">","c","u","r","r","e","n","t","_","t","o","k","e","n">>)>>,
    \* line 141: '\.cr\b' -> '.current_token'
    <<L(<<".","c","r">>) \o WB,
      R(<<".","c","u","r","r","e","n","t","_","t","o","k","e","n">>)>>,
    \* line 142: '->pk\b' -> '->peek_token'
    <<L(<<"-",">","p","k">>) \o WB,
      R(<<"-",">","p","e","e","k","_","t","o","k","e","n">>)>>,
    \* line 143: '\.pk\b' -> '.peek_token'
    <<L(<<".","p","k">>) \o WB,
      R(<<".","p","e","e","k","_","t","o","k","e","n">>)>>,
    \* line 144: '->er\b' -> '->error_count'
    <<L(<<"-",">","e","r">>) \o WB,
      R(<<"-",">","e","r","r","o","r","_","c","o","u","n","t">>)>>,
    \* line 145: '\.er\b' -> '.error_count'
    <<L(<<".","e","r">>) \o WB,
      R(<<".","e","r","r","o","r","_","c","o","u","n","t">>)>>,
    \* line 146: '->lb\b' -> '->label_stack'
    <<L(<<"-",">","l","b">>) \o WB,
      R(<<"-",">","l","a","b","e","l","_","s","t","a","c","k">>)>>,
    \* line 147: '\.lb\b' -> '.label_stack'
    <<L(<<".","l","b">>) \o WB,
      R(<<".","l","a","b","e","l","_","s","t","a","c","k">>)>>,
    \* line 150: '->k\b' -> '->kind'
    <<L(<<"-",">","k">>) \o WB,
      R(<<"-",">","k","i","n","d">>)>>,
    \* line 151: '\.k\b' -> '.kind'
    <<L(<<".","k">>) \o WB,
      R(<<".","k","i","n","d">>)>>
  >>

\* apply_all_field_fixes.py, lines 15-157 (apply_all_fixes)
AAF_Rules ==
  <<
    \* line 15: '\.ui\b' -> '.unsigned_integer'
    <<L(<<".","u","i">>) \o WB,
      R(<<".","u","n","s","i","g","n","e","d","_","i","n","t","e","g","e","r">>)>>,
    \* line 16: '->ui\b' -> '->unsigned_integer'
    <<L(<<"-",">","u","i">>) \o WB,
      R(<<"-",">","u","n","s","i","g","n","e","d","_","i","n","t","e","g","e","r">>)>>,
    \* line 17: '\.ur\b' -> '.unsigned_rational'
    <<L(<<".","u","r">>) \o WB,
      R(<<".","u","n","s","i","g","n","e","d","_","r","a","t","i","o","n","a","l">>)>>,
    \* line 18: '->ur\b' -> '->unsigned_rational'
    <<L(<<"-",">","u","r">>) \o WB,
      R(<<"-",">","u","n","s","i","g","n","e","d","_","r","a","t","i","o","n","a","l">>)>>,
    \* line 19: '\.iv\b' -> '.integer_value'
    <<L(<<".","i","v">>) \o WB,
      R(<<".","i","n","t","e","g","e","r","_","v","a","l","u","e">>)>>,
    \* line 20: '->iv\b' -> '->integer_value'
    <<L(<<"-",">","i","v">>) \o WB,
      R(<<"-",">","i","n","t","e","g","e","r","_","v","a","l","u","e">>)>>,
    \* line 21: '\.fv\b' -> '.float_value'
    <<L(<<".","f","v">>) \o WB,
      R(<<".","f","l","o","a","t","_","v","a","l","u","e">>)>>,
    \* line 22: '->fv\b' -> '->float_value'
    <<L(<<"-",">","f","v">>) \o WB,
      R(<<"-",">","f","l","o","a","t","_","v","a","l","u","e">>)>>,
    \* line 23: '\.lit\b' -> '.literal'
    <<L(<<".","l","i","t">>) \o WB,
      R(<<".","l","i","t","e","r","a","l">>)>>,
    \* line 24: '->lit\b' -> '->literal'
    <<L(<<"-",">","l","i","t">>) \o WB,
      R(<<"-",">","l","i","t","e","r","a","l">>)>>,
    \* line 27: '->ln\b' -> '->line_number'
    <<L(<<"-",">","l","n">>) \o WB,
      R(<<"-",">","l","i","n","e","_","n","u","m","b","e","r">>)>>,
    \* line 28: '\.ln\b' -> '.line_number'
    <<L(<<".","l","n">>) \o WB,
      R(<<".","l","i","n","e","_","n","u","m","b","e","r">>)>>,
    \* line 29: '->cl\b' -> '->column'
    <<L(<<"-",">","c","l">>) \o WB,
      R(<<"-",">","c","o","l","u","m","n">>)>>,
    \* line 30: '\.cl\b' -> '.column'
    <<L(<<".","c","l">>) \o WB,
      R(<<".","c","o","l","u","m","n">>)>>,
    \* line 31: '->pt\b' -> '->previous_token'
    <<L(<<"-",">","p","t">>) \o WB,
      R(<<"-",">","p","r","e","v","i","o","u","s","_","t","o","k","e","n">>)>>,
    \* line 32: '\.pt\b' -> '.previous_token'
    <<L(<<".","p","t">>) \o WB,
      R(<<".","p","r","e","v","i","o","u","s","_","t","o","k","e","n">>)>>,
    \* line 35: '->lx\b' -> '->lexer'
    <<L(<<"-",">","l","x">>) \o WB,
      R(<<"-",">","l","e","x","e","r">>)>>,
    \* line 36: '\.lx\b' -> '.lexer'
    <<L(<<".","l","x">>) \o WB,
      R(<<".","l","e","x","e","r">>)>>,
    \* line 37: '->cr\b' -> '->current_token'
    <<L(<<"-",">","c","r">>) \o WB,
      R(<<"-",">","c","u","r","r","e","n","t","_","t","o","k","e","n">>)>>,
    \* line 38: '\.cr\b' -> '.current_token'
    <<L(<<".","c","r">>) \o WB,
      R(<<".","c","u","r","r","e","n","t","_","t","o","k","e","n">>)>>,
    \* line 39: '->pk\b' -> '->peek_token'
    <<L(<<"-",">","p","k">>) \o WB,
      R(<<"-",">","p","e","e","k","_","t","o","k","e","n">>)>>,
    \* line 40: '\.pk\b' -> '.peek_token'
    <<L(<<".","p","k">>) \o WB,
      R(<<".","p","e","e","k","_","t","o","k","e","n">>)>>,
    \* line 41: '->er\b' -> '->error_count'
    <<L(<<"-",">","e","r">>) \o WB,
      R(<<"-",">","e","r","r","o","r","_","c","o","u","n","t">>)>>,
    \* line 42: '\.er\b' -> '.error_count'
    <<L(<<".","e","r">>) \o WB,
      R(<<".","e","r","r","o","r","_","c","o","u","n","t">>)>>,
    \* line 43: '->lb\b' -> '->label_stack'
    <<L(<<"-",">","l","b">>) \o WB,
      R(<<"-",">","l","a","b","e","l","_","s","t","a","c","k">>)>>,
    \* line 44: '\.lb\b' -> '.label_stack'
    <<L(<<".","l","b">>) \o WB,
      R(<<".","l","a","b","e","l","_","s","t","a","c","k">>)>>,
    \* line 47: '->lo\b' -> '->low_bound'
    <<L(<<"-",">","l","o">>) \o WB,
      R(<<"-",">","l","o","w","_","b","o","u","n","d">>)>>,
    \* line 48: '\.lo\b' -> '.low_bound'
    <<L(<<".","l","o">>) \o WB,
      R(<<".","l","o","w","_","b","o","u","n","d">>)>>,
    \* line 49: '->hi\b' -> '->high_bound'
    <<L(<<"-",">","h","i">>) \o WB,
      R(<<"-",">","h","i","g","h","_","b","o","u","n","d">>)>>,
    \* line 50: '\.hi\b' -> '.high_bound'
    <<L(<<".","h","i">>) \o WB,
      R(<<".","h","i","g","h","_","b","o","u","n","d">>)>>,
    \* line 53: '->cnt\b' -> '->count'
    <<L(<<"-",">","c","n","t">>) \o WB,
      R(<<"-",">","c","o","u","n","t">>)>>,
    \* line 54: '\.cnt\b' -> '.count'
    <<L(<<".","c","n","t">>) \o WB,
      R(<<".","c","o","u","n","t">>)>>,
    \* line 55: '->mx\b' -> '->maximum'
    <<L(<<"-",">","m","x">>) \o WB,
      R(<<"-",">","m","a","x","i","m","u","m">>)>>,
    \* line 56: '\.mx\b' -> '.maximum'
    <<L(<<".","m","x">>) \o WB,
      R(<<".","m","a","x","i","m","u","m">>)>>,
    \* line 59: '->pth\b' -> '->path'
    <<L(<<"-",">","p","t","h">>) \o WB,
      R(<<"-",">","p","a","t","h">>)>>,
    \* line 60: '\.pth\b' -> '.path'
    <<L(<<".","p","t","h">>) \o WB,
      R(<<".","p","a","t","h">>)>>,
    \* line 61: '->sp\b' -> '->spec'
    <<L(<<"-",">","s","p">>) \o WB,
      R(<<"-",">","s","p","e","c">>)>>,
    \* line 62: '\.sp\b' -> '.spec'
    <<L(<<".","s","p">>) \o WB,
      R(<<".","s","p","e","c">>)>>,
    \* line 63: '->bd\b' -> '->body'
    <<L(<<"-",">","b","d">>) \o WB,
      R(<<"-",">","b","o","d","y">>)>>,
    \* line 64: '\.bd\b' -> '.body'
    <<L(<<".","b","d">>) \o WB,
      R(<<".","b","o","d","y">>)>>,
    \* line 65: '->wth\b' -> '->with_list'
    <<L(<<"-",">","w","t","h">>) \o WB,
      R(<<"-",">","w","i","t","h","_","l","i","s","t">>)>>,
    \* line 66: '\.wth\b' -> '.with_list'
    <<L(<<".","w","t","h">>) \o WB,
      R(<<".","w","i","t","h","_","l","i","s","t">>)>>,
    \* line 67: '->elb\b' -> '->elaborates'
    <<L(<<"-",">","e","l","b">>) \o WB,
      R(<<"-",">","e","l","a","b","o","r","a","t","e","s">>)>>,
    \* line 68: '\.elb\b' -> '.elaborates'
    <<L(<<".","e","l","b">>) \o WB,
      R(<<".","e","l","a","b","o","r","a","t","e","s">>)>>,
    \* line 69: '->ts\b' -> '->timestamp'
    <<L(<<"-",">","t","s">>) \o WB,
      R(<<"-",">","t","i","m","e","s","t","a","m","p">>)>>,
    \* line 70: '\.ts\b' -> '.timestamp'
    <<L(<<".","t","s">>) \o WB,
      R(<<".","t","i","m","e","s","t","a","m","p">>)>>,
    \* line 71: '->cmpl\b' -> '->complete'
    <<L(<<"-",">","c","m","p","l">>) \o WB,
      R(<<"-",">","c","o","m","p","l","e","t","e">>)>>,
    \* line 72: '\.cmpl\b' -> '.complete'
    <<L(<<".","c","m","p","l">>) \o WB,
      R(<<".","c","o","m","p","l","e","t","e">>)>>,
    \* line 75: '->fp\b' -> '->formal_parameters'
    <<L(<<"-",">","f","p">>) \o WB,
      R(<<"-",">","f","o","r","m","a","l","_","p","a","r","a","m","e","t","e","r","s">>)>>,
    \* line 76: '\.fp\b' -> '.formal_parameters'
    <<L(<<".","f","p">>) \o WB,
      R(<<".","f","o","r","m","a","l","_","p","a","r","a","m","e","t","e","r","s">>)>>,
    \* line 77: '->dc\b' -> '->declarations'
    <<L(<<"-",">","d","c">>) \o WB,
      R(<<"-",">","d","e","c","l","a","r","a","t","i","o","n","s">>)>>,
    \* line 78: '\.dc\b' -> '.declarations'
    <<L(<<".","d","c">>) \o WB,
      R(<<".","d","e","c","l","a","r","a","t","i","o","n","s">>)>>,
    \* line 79: '->un\b' -> '->unit'
    <<L(<<"-",">","u","n">>) \o WB,
      R(<<"-",">","u","n","i","t">>)>>,
    \* line 80: '\.un\b' -> '.unit'
    <<L(<<".","u","n">>) \o WB,
      R(<<".","u","n","i","t">>)>>,
    \* line 83: '\.er\b' -> '.enum_rep'
    <<L(<<".","e","r">>) \o WB,
      R(<<".","e","n","u","m","_","r","e","p">>)>>,
    \* line 84: '\.ad\b' -> '.address_clause'
    <<L(<<".","a","d">>) \o WB,
      R(<<".","a","d","d","r","e","s","s","_","c","l","a","u","s","e">>)>>,
    \* line 85: '\.rr\b' -> '.record_rep'
    <<L(<<".","r","r">>) \o WB,
      R(<<".","r","e","c","o","r","d","_","r","e","p">>)>>,
    \* line 86: '\.im\b' -> '.import_clause'
    <<L(<<".","i","m">>) \o WB,
      R(<<".","i","m","p","o","r","t","_","c","l","a","u","s","e">>)>>,
    \* line 87: '->po\b' -> '->position'
    <<L(<<"-",">","p","o">>) \o WB,
      R(<<"-",">","p","o","s","i","t","i","o","n">>)>>,
    \* line 88: '\.po\b' -> '.position'
    <<L(<<".","p","o">>) \o WB,
      R(<<".","p","o","s","i","t","i","o","n">>)>>,
    \* line 89: '->cp\b' -> '->components'
    <<L(<<"-",">","c","p">>) \o WB,
      R(<<"-",">","c","o","m","p","o","n","e","n","t","s">>)>>,
    \* line 90: '\.cp\b' -> '.components'
    <<L(<<".","c","p">>) \o WB,
      R(<<".","c","o","m","p","o","n","e","n","t","s">>)>>,
    \* line 91: '->lang\b' -> '->language'
    <<L(<<"-",">","l","a","n","g">>) \o WB,
      R(<<"-",">","l","a","n","g","u","a","g","e">>)>>,
    \* line 92: '\.lang\b' -> '.language'
    <<L(<<".","l","a","n","g">>) \o WB,
      R(<<".","l","a","n","g","u","a","g","e">>)>>,
    \* line 98: '->k\b' -> '->kind'
    <<L(<<"-",">","k">>) \o WB,
      R(<<"-",">","k","i","n","d">>)>>,
    \* line 99: '\.k\b' -> '.kind'
    <<L(<<".","k">>) \o WB,
      R(<<".","k","i","n","d">>)>>,
    \* line 102: '->nm\b' -> '->name'
    <<L(<<"-",">","n","m">>) \o WB,
      R(<<"-",">","n","a","m","e">>)>>,
    \* line 103: '\.nm\b' -> '.name'
    <<L(<<".","n","m">>) \o WB,
      R(<<".","n","a","m","e">>)>>,
    \* line 106: '->bb\b' -> '->basic_block'
    <<L(<<"-",">","b","b">>) \o WB,
      R(<<"-",">","b","a","s","i","c","_","b","l","o","c","k">>)>>,
    \* line 107: '\.bb\b' -> '.basic_block'
    <<L(<<".","b","b">>) \o WB,
      R(<<".","b","a","s","i","c","_","b","l","o","c","k">>)>>,
    \* line 110: '->ty\b' -> '->type_info'
    <<L(<<"-",">","t","y">>) \o WB,
      R(<<"-",">","t","y","p","e","_","i","n","f","o">>)>>,
    \* line 111: '\.ty\b' -> '.type_info'
    <<L(<<".","t","y">>) \o WB,
      R(<<".","t","y","p","e","_","i","n","f","o">>)>>,
    \* line 116: '(\w+)\.l\.l\b' -> '\1.location.line'
    <<<<<<"open", 1>>>> \o <<<<"in", Word>>>> \o <<<<"star", Word>>>> \o <<<<"close", 1>>>> \o L(<<".","l",".","l">>) \o WB,
      G(1) \o R(<<".","l","o","c","a","t","i","o","n",".","l","i","n","e">>)>>,
    \* line 117: '(\w+)\.l\.c\b' -> '\1.location.column'
    <<<<<<"open", 1>>>> \o <<<<"in", Word>>>> \o <<<<"star", Word>>>> \o <<<<"close", 1>>>> \o L(<<".","l",".","c">>) \o WB,
      G(1) \o R(<<".","l","o","c","a","t","i","o","n",".","c","o","l","u","m","n">>)>>,
    \* line 118: '(\w+)\.l\.f\b' -> '\1.location.filename'
    <<<<<<"open", 1>>>> \o <<<<"in", Word>>>> \o <<<<"star", Word>>>> \o <<<<"close", 1>>>> \o L(<<".","l",".","f">>) \o WB,
      G(1) \o R(<<".","l","o","c","a","t","i","o","n",".","f","i","l","e","n","a","m","e">>)>>,
    \* line 121: '->l\b(?!ocation|ine|ength|abel|anguage)' -> '->location'
    <<L(<<"-",">","l">>) \o WB \o <<<<"nla", <<L(<<"o","c","a","t","i","o","n">>), L(<<"i","n","e">>), L(<<"e","n","g","t","h">>), L(<<"a","b","e","l">>), L(<<"a","n","g","u","a","g","e">>)>>>>>>,
      R(<<"-",">","l","o","c","a","t","i","o","n">>)>>,
    \* line 122: '\.l\b(?!ocation|ine|ength|abel|anguage)' -> '.location'
    <<L(<<".","l">>) \o WB \o <<<<"nla", <<L(<<"o","c","a","t","i","o","n">>), L(<<"i","n","e">>), L(<<"e","n","g","t","h">>), L(<<"a","b","e","l">>), L(<<"a","n","g","u","a","g","e">>)>>>>>>,
      R(<<".","l","o","c","a","t","i","o","n">>)>>,
    \* line 125: '->f\b(?!ile|loat|ormal)' -> '->filename'
    <<L(<<"-",">","f">>) \o WB \o <<<<"nla", <<L(<<"i","l","e">>), L(<<"l","o","a","t">>), L(<<"o","r","m","a","l">>)>>>>>>,
      R(<<"-",">","f","i","l","e","n","a","m","e">>)>>,
    \* line 126: '\.f\b(?!ile|loat|ormal)' -> '.filename'
    <<L(<<".","f">>) \o WB \o <<<<"nla", <<L(<<"i","l","e">>), L(<<"l","o","a","t">>), L(<<"o","r","m","a","l">>)>>>>>>,
      R(<<".","f","i","l","e","n","a","m","e">>)>>,
    \* line 129: '->t\b(?!ype|ime|hread|oken)' -> '->kind'
    <<L(<<"-",">","t">>) \o WB \o <<<<"nla", <<L(<<"y","p","e">>), L(<<"i","m","e">>), L(<<"h","r","e","a","d">>), L(<<"o","k","e","n">>)>>>>>>,
      R(<<"-",">","k","i","n","d">>)>>,
    \* line 130: '\.t\b(?!ype|ime|hread|oken)' -> '.kind'
    <<L(<<".","t">>) \o WB \o <<<<"nla", <<L(<<"y","p","e">>), L(<<"i","m","e">>), L(<<"h","r","e","a","d">>), L(<<"o","k","e","n">>)>>>>>>,
      R(<<".","k","i","n","d">>)>>,
    \* line 134: '->s\b(?!t|pec|tring|ize|cope)' -> '->string'
    <<L(<<"-",">","s">>) \o WB \o <<<<"nla", <<L(<<"t">>), L(<<"p","e","c">>), L(<<"t","r","i","n","g">>), L(<<"i","z","e">>), L(<<"c","o","p","e">>)>>>>>>,
      R(<<"-",">","s","t","r","i","n","g">>)>>,
    \* line 138: '->n\b(?!ame|ext|ot)' -> '->count'
    <<L(<<"-",">","n">>) \o WB \o <<<<"nla", <<L(<<"a","m","e">>), L(<<"e","x","t">>), L(<<"o","t">>)>>>>>>,
      R(<<"-",">","c","o","u","n","t">>)>>,
    \* line 139: '\.n\b(?!ame|ext|ot)' -> '.count'
    <<L(<<".","n">>) \o WB \o <<<<"nla", <<L(<<"a","m","e">>), L(<<"e","x","t">>), L(<<"o","t">>)>>>>>>,
      R(<<".","c","o","u","n","t">>)>>,
    \* line 140: '->c\b(?!o|u|a)' -> '->capacity'
    <<L(<<"-",">","c">>) \o WB \o <<<<"nla", <<<<<<"in", {"o","u","a"}>>>>>>>>>>,
      R(<<"-",">","c","a","p","a","c","i","t","y">>)>>,
    \* line 141: '\.c\b(?!o|u|a)' -> '.capacity'
    <<L(<<".","c">>) \o WB \o <<<<"nla", <<<<<<"in", {"o","u","a"}>>>>>>>>>>,
      R(<<".","c","a","p","a","c","i","t","y">>)>>,
    \* line 142: '->d\b(?!a|e|i)' -> '->data'
    <<L(<<"-",">","d">>) \o WB \o <<<<"nla", <<<<<<"in", {"a","e","i"}>>>>>>>>>>,
      R(<<"-",">","d","a","t","a">>)>>,
    \* line 143: '\.d\b(?!a|e|i)' -> '.data'
    <<L(<<".","d">>) \o WB \o <<<<"nla", <<<<<<"in", {"a","e","i"}>>>>>>>>>>,
      R(<<".","d","a","t","a">>)>>,
    \* line 146: '->b\b(?!a|o|y)' -> '->base'
    <<L(<<"-",">","b">>) \o WB \o <<<<"nla", <<<<<<"in", {"a","o","y"}>>>>>>>>>>,
      R(<<"-",">","b","a","s","e">>)>>,
    \* line 147: '\.b\b(?!a|o|y)' -> '.base'
    <<L(<<".","b">>) \o WB \o <<<<"nla", <<<<<<"in", {"a","o","y"}>>>>>>>>>>,
      R(<<".","b","a","s","e">>)>>,
    \* line 148: '->p\b(?!a|o|r)' -> '->pointer'
    <<L(<<"-",">","p">>) \o WB \o <<<<"nla", <<<<<<"in", {"a","o","r"}>>>>>>>>>>,
      R(<<"-",">","p","o","i","n","t","e","r">>)>>,
    \* line 149: '\.p\b(?!a|o|r)' -> '.pointer'
    <<L(<<".","p">>) \o WB \o <<<<"nla", <<<<<<"in", {"a","o","r"}>>>>>>>>>>,
      R(<<".","p","o","i","n","t","e","r">>)>>,
    \* line 150: '->e\b(?!n|l|r|x)' -> '->end'
    <<L(<<"-",">","e">>) \o WB \o <<<<"nla", <<<<<<"in", {"n","l","r","x"}>>>>>>>>>>,
      R(<<"-",">","e","n","d">>)>>,
    \* line 151: '\.e\b(?!n|l|r|x)' -> '.end'
    <<L(<<".","e">>) \o WB \o <<<<"nla", <<<<<<"in", {"n","l","r","x"}>>>>>>>>>>,
      R(<<".","e","n","d">>)>>,
    \* line 154: '->m\b(?!a|u|o)' -> '->mutex'
    <<L(<<"-",">","m">>) \o WB \o <<<<"nla", <<<<<<"in", {"a","u","o"}>>>>>>>>>>,
      R(<<"-",">","m","u","t","e","x">>)>>,
    \* line 155: '\.m\b(?!a|u|o)' -> '.mutex'
    <<L(<<".","m">>) \o WB \o <<<<"nla", <<<<<<"in", {"a","u","o"}>>>>>>>>>>,
      R(<<".","m","u","t","e","x">>)>>,
    \* line 156: '->q\b(?!u)' -> '->queue'
    <<L(<<"-",">","q">>) \o WB \o <<<<"nla", <<L(<<"u">>)>>>>>>,
      R(<<"-",">","q","u","e","u","e">>)>>,
    \* line 157: '\.q\b(?!u)' -> '.queue'
    <<L(<<".","q">>) \o WB \o <<<<"nla", <<L(<<"u">>)>>>>>>,
      R(<<".","q","u","e","u","e">>)>>
  >>

\* complete_expansion.py, lines 12-221 (expand_all)
EA_Rules ==
  <<
    \* line 12: 'typedef struct\s*\{\s*uint64_t \*d;\s*uint32_t n, c;\s*bool s;\s*\} Unsigned_Big_Integer;' -> 'typedef struct\n{\n  uint64_t *digits;\n  uint32_t count, capacity;\n  bool is_negative;\n} Unsigned_Big_Integer;'
    <<L(<<"t","y","p","e","d","e","f"," ","s","t","r","u","c","t">>) \o <<<<"star", Space>>>> \o L(<<"{">>) \o <<<<"star", Space>>>> \o L(<<"u","i","n","t","6","4","_","t"," ","*","d",";">>) \o <<<<"star", Space>>>> \o L(<<"u","i","n","t","3","2","_","t"," ","n",","," ","c",";">>) \o <<<<"star", Space>>>> \o L(<<"b","o","o","l"," ","s",";">>) \o <<<<"star", Space>>>> \o L(<<"}"," ","U","n","s","i","g","n","e","d","_","B","i","g","_","I","n","t","e","g","e","r",";">>),
      R(<<"t","y","p","e","d","e","f"," ","s","t","r","u","c","t","\n","{","\n"," "," ","u","i","n","t","6","4","_","t"," ","*","d","i","g","i","t","s",";","\n"," "," ","u","i","n","t","3","2","_","t"," ","c","o","u","n","t",","," ","c","a","p","a","c","i","t","y",";","\n"," "," ","b","o","o","l"," ","i","s","_","n","e","g","a","t","i","v","e",";","\n","}"," ","U","n","s","i","g","n","e","d","_","B","i","g","_","I","n","t","e","g","e","r",";">>)>>,
    \* line 19: 'typedef struct\s*\{\s*Unsigned_Big_Integer \*n, \*d;\s*\} Rational_Number;' -> 'typedef struct\n{\n  Unsigned_Big_Integer *numerator, *denominator;\n} Rational_Number;'
    <<L(<<"t","y","p","e","d","e","f"," ","s","t","r","u","c","t">>) \o <<<<"star", Space>>>> \o L(<<"{">>) \o <<<<"star", Space>>>> \o L(<<"U","n","s","i","g","n","e","d","_","B","i","g","_","I","n","t","e","g","e","r"," ","*","n",","," ","*","d",";">>) \o <<<<"star", Space>>>> \o L(<<"}"," ","R","a","t","i","o","n","a","l","_","N","u","m","b","e","r",";">>),
      R(<<"t","y","p","e","d","e","f"," ","s","t","r","u","c","t","\n","{","\n"," "," ","U","n","s","i","g","n","e","d","_","B","i","g","_","I","n","t","e","g","e","r"," ","*","n","u","m","e","r","a","t","o","r",","," ","*","d","e","n","o","m","i","n","a","t","o","r",";","\n","}"," ","R","a","t","i","o","n","a","l","_","N","u","m","b","e","r",";">>)>>,
    \* line 26: 'typedef struct\s*\{\s*void \*d;\s*void \*b;\s*\} Fat_Pointer;' -> 'typedef struct\n{\n  void *data;\n  void *bounds;\n} Fat_Pointer;'
    <<L(<<"t","y","p","e","d","e","f"," ","s","t","r","u","c","t">>) \o <<<<"star", Space>>>> \o L(<<"{">>) \o <<<<"star", Space>>>> \o L(<<"v","o","i","d"," ","*","d",";">>) \o <<<<"star", Space>>>> \o L(<<"v","o","i","d"," ","*","b",";">>) \o <<<<"star", Space>>>> \o L(<<"}"," ","F","a","t","_","P","o","i","n","t","e","r",";">>),
      R(<<"t","y","p","e","d","e","f"," ","s","t","r","u","c","t","\n","{","\n"," "," ","v","o","i","d"," ","*","d","a","t","a",";","\n"," "," ","v","o","i","d"," ","*","b","o","u","n","d","s",";","\n","}"," ","F","a","t","_","P","o","i","n","t","e","r",";">>)>>,
    \* line 33: 'typedef struct\s*\{\s*int64_t lo, hi;\s*\} Array_Bounds;' -> 'typedef struct\n{\n  int64_t low_bound, high_bound;\n} Array_Bounds;'
    <<L(<<"t","y","p","e","d","e","f"," ","s","t","r","u","c","t">>) \o <<<<"star", Space>>>> \o L(<<"{">>) \o <<<<"star", Space>>>> \o L(<<"i","n","t","6","4","_","t"," ","l","o",","," ","h","i",";">>) \o <<<<"star", Space>>>> \o L(<<"}"," ","A","r","r","a","y","_","B","o","u","n","d","s",";">>),
      R(<<"t","y","p","e","d","e","f"," ","s","t","r","u","c","t","\n","{","\n"," "," ","i","n","t","6","4","_","t"," ","l","o","w","_","b","o","u","n","d",","," ","h","i","g","h","_","b","o","u","n","d",";","\n","}"," ","A","r","r","a","y","_","B","o","u","n","d","s",";">>)>>,
    \* line 40: 'typedef struct\s*\{\s*pthread_mutex_t m;\s*pthread_cond_t c;\s*int cnt, mx;\s*\} Thread_Queue;' -> 'typedef struct\n{\n  pthread_mutex_t mutex;\n  pthread_cond_t condition;\n  int count, maximum;\n} Thread_Queue;'
    <<L(<<"t","y","p","e","d","e","f"," ","s","t","r","u","c","t">>) \o <<<<"star", Space>>>> \o L(<<"{">>) \o <<<<"star", Space>>>> \o L(<<"p","t","h","r","e","a","d","_","m","u","t","e","x","_","t"," ","m",";">>) \o <<<<"star", Space>>>> \o L(<<"p","t","h","r","e","a","d","_","c","o","n","d","_","t"," ","c",";">>) \o <<<<"star", Space>>>> \o L(<<"i","n","t"," ","c","n","t",","," ","m","x",";">>) \o <<<<"star", Space>>>> \o L(<<"}"," ","T","h","r","e","a","d","_","Q","u","e","u","e",";">>),
      R(<<"t","y","p","e","d","e","f"," ","s","t","r","u","c","t","\n","{","\n"," "," ","p","t","h","r","e","a","d","_","m","u","t","e","x","_","t"," ","m","u","t","e","x",";","\n"," "," ","p","t","h","r","e","a","d","_","c","o","n","d","_","t"," ","c","o","n","d","i","t","i","o","n",";","\n"," "," ","i","n","t"," ","c","o","u","n","t",","," ","m","a","x","i","m","u","m",";","\n","}"," ","T","h","r","e","a","d","_","Q","u","e","u","e",";">>)>>,
    \* line 47: 'typedef struct\s*\{\s*pthread_t t;\s*Thread_Queue \*q;\s*void \*d;\s*\} Thread_Args;' -> 'typedef struct\n{\n  pthread_t thread;\n  Thread_Queue *queue;\n  void *data;\n} Thread_Args;'
    <<L(<<"t","y","p","e","d","e","f"," ","s","t","r","u","c","t">>) \o <<<<"star", Space>>>> \o L(<<"{">>) \o <<<<"star", Space>>>> \o L(<<"p","t","h","r","e","a","d","_","t"," ","t",";">>) \o <<<<"star", Space>>>> \o L(<<"T","h","r","e","a","d","_","Q","u","e","u","e"," ","*","q",";">>) \o <<<<"star", Space>>>> \o L(<<"v","o","i","d"," ","*","d",";">>) \o <<<<"star", Space>>>> \o L(<<"}"," ","T","h","r","e","a","d","_","A","r","g","s",";">>),
      R(<<"t","y","p","e","d","e","f"," ","s","t","r","u","c","t","\n","{","\n"," "," ","p","t","h","r","e","a","d","_","t"," ","t","h","r","e","a","d",";","\n"," "," ","T","h","r","e","a","d","_","Q","u","e","u","e"," ","*","q","u","e","u","e",";","\n"," "," ","v","o","i","d"," ","*","d","a","t","a",";","\n","}"," ","T","h","r","e","a","d","_","A","r","g","s",";">>)>>,
    \* line 54: 'typedef struct\s*\{\s*char \*b, \*p, \*e;\s*\} A;' -> 'typedef struct\n{\n  char *base, *pointer, *end;\n} Arena_Allocator;'
    <<L(<<"t","y","p","e","d","e","f"," ","s","t","r","u","c","t">>) \o <<<<"star", Space>>>> \o L(<<"{">>) \o <<<<"star", Space>>>> \o L(<<"c","h","a","r"," ","*","b",","," ","*","p",","," ","*","e",";">>) \o <<<<"star", Space>>>> \o L(<<"}"," ","A",";">>),
      R(<<"t","y","p","e","d","e","f"," ","s","t","r","u","c","t","\n","{","\n"," "," ","c","h","a","r"," ","*","b","a","s","e",","," ","*","p","o","i","n","t","e","r",","," ","*","e","n","d",";","\n","}"," ","A","r","e","n","a","_","A","l","l","o","c","a","t","o","r",";">>)>>,
    \* line 59: '\bA\b(?!\w)' -> 'Arena_Allocator'
    <<WB \o L(<<"A">>) \o WB \o <<<<"nla", <<<<<<"in", Word>>>>>>>>>>,
      R(<<"A","r","e","n","a","_","A","l","l","o","c","a","t","o","r">>)>>,
    \* line 62: 'typedef struct\s*\{\s*const char \*s;\s*uint32_t n;\s*\} String_Slice;' -> 'typedef struct\n{\n  const char *string;\n  uint32_t length;\n} String_Slice;'
    <<L(<<"t","y","p","e","d","e","f"," ","s","t","r","u","c","t">>) \o <<<<"star", Space>>>> \o L(<<"{">>) \o <<<<"star", Space>>>> \o L(<<"c","o","n","s","t"," ","c","h","a","r"," ","*","s",";">>) \o <<<<"star", Space>>>> \o L(<<"u","i","n","t","3","2","_","t"," ","n",";">>) \o <<<<"star", Space>>>> \o L(<<"}"," ","S","t","r","i","n","g","_","S","l","i","c","e",";">>),
      R(<<"t","y","p","e","d","e","f"," ","s","t","r","u","c","t","\n","{","\n"," "," ","c","o","n","s","t"," ","c","h","a","r"," ","*","s","t","r","i","n","g",";","\n"," "," ","u","i","n","t","3","2","_","t"," ","l","e","n","g","t","h",";","\n","}"," ","S","t","r","i","n","g","_","S","l","i","c","e",";">>)>>,
    \* line 69: 'typedef struct\s*\{\s*uint32_t l, c;\s*const char \*f;\s*\} Source_Location;' -> 'typedef struct\n{\n  uint32_t line, column;\n  const char *filename;\n} Source_Location;'
    <<L(<<"t","y","p","e","d","e","f"," ","s","t","r","u","c","t">>) \o <<<<"star", Space>>>> \o L(<<"{">>) \o <<<<"star", Space>>>> \o L(<<"u","i","n","t","3","2","_","t"," ","l",","," ","c",";">>) \o <<<<"star", Space>>>> \o L(<<"c","o","n","s","t"," ","c","h","a","r"," ","*","f",";">>) \o <<<<"star", Space>>>> \o L(<<"}"," ","S","o","u","r","c","e","_","L","o","c","a","t","i","o","n",";">>),
      R(<<"t","y","p","e","d","e","f"," ","s","t","r","u","c","t","\n","{","\n"," "," ","u","i","n","t","3","2","_","t"," ","l","i","n","e",","," ","c","o","l","u","m","n",";","\n"," "," ","c","o","n","s","t"," ","c","h","a","r"," ","*","f","i","l","e","n","a","m","e",";","\n","}"," ","S","o","u","r","c","e","_","L","o","c","a","t","i","o","n",";">>)>>,
    \* line 76: '(typedef struct\s*\{\s*Token_Kind )t;(\s*Source_Location )l;(\s*String_Slice lit;\s*int64_t )iv;(\s*double )fv;(\s*Unsigned_Big_Integer \*)ui;(\s*Rational_Number \*)ur;(\s*\} Token;)' -> '\1kind;\2location;\3integer_value;\4float_value;\5unsigned_integer;\6unsigned_rational;\7'
    <<<<<<"open", 1>>>> \o L(<<"t","y","p","e","d","e","f"," ","s","t","r","u","c","t">>) \o <<<<"star", Space>>>> \o L(<<"{">>) \o <<<<"star", Space>>>> \o L(<<"T","o","k","e","n","_","K","i","n","d"," ">>) \o <<<<"close", 1>>>> \o L(<<"t",";">>) \o <<<<"open", 2>>>> \o <<<<"star", Space>>>> \o L(<<"S","o","u","r","c","e","_","L","o","c","a","t","i","o","n"," ">>) \o <<<<"close", 2>>>> \o L(<<"l",";">>) \o <<<<"open", 3>>>> \o <<<<"star", Space>>>> \o L(<<"S","t","r","i","n","g","_","S","l","i","c","e"," ","l","i","t",";">>) \o <<<<"star", Space>>>> \o L(<<"i","n","t","6","4","_","t"," ">>) \o <<<<"close", 3>>>> \o L(<<"i","v",";">>) \o <<<<"open", 4>>>> \o <<<<"star", Space>>>> \o L(<<"d","o","u","b","l","e"," ">>) \o <<<<"close", 4>>>> \o L(<<"f","v",";">>) \o <<<<"open", 5>>>> \o <<<<"star", Space>>>> \o L(<<"U","n","s","i","g","n","e","d","_","B","i","g","_","I","n","t","e","g","e","r"," ","*">>) \o <<<<"close", 5>>>> \o L(<<"u","i",";">>) \o <<<<"open", 6>>>> \o <<<<"star", Space>>>> \o L(<<"R","a","t","i","o","n","a","l","_","N","u","m","b","e","r"," ","*">>) \o <<<<"close", 6>>>> \o L(<<"u","r",";">>) \o <<<<"open", 7>>>> \o <<<<"star", Space>>>> \o L(<<"}"," ","T","o","k","e","n",";">>) \o <<<<"close", 7>>>>,
      G(1) \o R(<<"k","i","n","d",";">>) \o G(2) \o R(<<"l","o","c","a","t","i","o","n",";">>) \o G(3) \o R(<<"i","n","t","e","g","e","r","_","v","a","l","u","e",";">>) \o G(4) \o R(<<"f","l","o","a","t","_","v","a","l","u","e",";">>) \o G(5) \o R(<<"u","n","s","i","g","n","e","d","_","i","n","t","e","g","e","r",";">>) \o G(6) \o R(<<"u","n","s","i","g","n","e","d","_","r","a","t","i","o","n","a","l",";">>) \o G(7)>>,
    \* line 83: '(typedef struct\s*\{\s*const char \*)s, \*c, \*e;(\s*uint32_t )ln, cl;(\s*const char \*)f;(\s*Token_Kind )pt;(\s*\} Lexer;)' -> '\1start, *current, *end;\2line_number, column;\3filename;\4previous_token;\5'
    <<<<<<"open", 1>>>> \o L(<<"t","y","p","e","d","e","f"," ","s","t","r","u","c","t">>) \o <<<<"star", Space>>>> \o L(<<"{">>) \o <<<<"star", Space>>>> \o L(<<"c","o","n","s","t"," ","c","h","a","r"," ","*">>) \o <<<<"close", 1>>>> \o L(<<"s",","," ","*","c",","," ","*","e",";">>) \o <<<<"open", 2>>>> \o <<<<"star", Space>>>> \o L(<<"u","i","n","t","3","2","_","t"," ">>) \o <<<<"close", 2>>>> \o L(<<"l","n",","," ","c","l",";">>) \o <<<<"open", 3>>>> \o <<<<"star", Space>>>> \o L(<<"c","o","n","s","t"," ","c","h","a","r"," ","*">>) \o <<<<"close", 3>>>> \o L(<<"f",";">>) \o <<<<"open", 4>>>> \o <<<<"star", Space>>>> \o L(<<"T","o","k","e","n","_","K","i","n","d"," ">>) \o <<<<"close", 4>>>> \o L(<<"p","t",";">>) \o <<<<"open", 5>>>> \o <<<<"star", Space>>>> \o L(<<"}"," ","L","e","x","e","r",";">>) \o <<<<"close", 5>>>>,
      G(1) \o R(<<"s","t","a","r","t",","," ","*","c","u","r","r","e","n","t",","," ","*","e","n","d",";">>) \o G(2) \o R(<<"l","i","n","e","_","n","u","m","b","e","r",","," ","c","o","l","u","m","n",";">>) \o G(3) \o R(<<"f","i","l","e","n","a","m","e",";">>) \o G(4) \o R(<<"p","r","e","v","i","o","u","s","_","t","o","k","e","n",";">>) \o G(5)>>,
    \* line 90: 'String_Slice k;(\s*)Token_Kind t;(\s*\} KW)' -> 'String_Slice keyword;\1Token_Kind token_kind;\2'
    <<L(<<"S","t","r","i","n","g","_","S","l","i","c","e"," ","k",";">>) \o <<<<"open", 1>>>> \o <<<<"star", Space>>>> \o <<<<"close", 1>>>> \o L(<<"T","o","k","e","n","_","K","i","n","d"," ","t",";">>) \o <<<<"open", 2>>>> \o <<<<"star", Space>>>> \o L(<<"}"," ","K","W">>) \o <<<<"close", 2>>>>,
      R(<<"S","t","r","i","n","g","_","S","l","i","c","e"," ","k","e","y","w","o","r","d",";">>) \o G(1) \o R(<<"T","o","k","e","n","_","K","i","n","d"," ","t","o","k","e","n","_","k","i","n","d",";">>) \o G(2)>>,
    \* line 93: '(struct LE\s*\{\s*String_Slice )nm;(\s*int )bb;' -> '\1name;\2basic_block;'
    <<<<<<"open", 1>>>> \o L(<<"s","t","r","u","c","t"," ","L","E">>) \o <<<<"star", Space>>>> \o L(<<"{">>) \o <<<<"star", Space>>>> \o L(<<"S","t","r","i","n","g","_","S","l","i","c","e"," ">>) \o <<<<"close", 1>>>> \o L(<<"n","m",";">>) \o <<<<"open", 2>>>> \o <<<<"star", Space>>>> \o L(<<"i","n","t"," ">>) \o <<<<"close", 2>>>> \o L(<<"b","b",";">>),
      G(1) \o R(<<"n","a","m","e",";">>) \o G(2) \o R(<<"b","a","s","i","c","_","b","l","o","c","k",";">>)>>,
    \* line 97: '(typedef struct\s*\{[^}]*)\*\*d;(\s*uint32_t )n, c;(\s*\} Node_Vector;)' -> '\1**data;\2count, capacity;\3'
    <<<<<<"open", 1>>>> \o L(<<"t","y","p","e","d","e","f"," ","s","t","r","u","c","t">>) \o <<<<"star", Space>>>> \o L(<<"{">>) \o <<<<"nstar", {"}"}>>>> \o <<<<"close", 1>>>> \o L(<<"*","*","d",";">>) \o <<<<"open", 2>>>> \o <<<<"star", Space>>>> \o L(<<"u","i","n","t","3","2","_","t"," ">>) \o <<<<"close", 2>>>> \o L(<<"n",","," ","c",";">>) \o <<<<"open", 3>>>> \o <<<<"star", Space>>>> \o L(<<"}"," ","N","o","d","e","_","V","e","c","t","o","r",";">>) \o <<<<"close", 3>>>>,
      G(1) \o R(<<"*","*","d","a","t","a",";">>) \o G(2) \o R(<<"c","o","u","n","t",","," ","c","a","p","a","c","i","t","y",";">>) \o G(3)>>,
    \* line 97: '(typedef struct\s*\{[^}]*)\*\*d;(\s*uint32_t )n, c;(\s*\} Symbol_Vector;)' -> '\1**data;\2count, capacity;\3'
    <<<<<<"open", 1>>>> \o L(<<"t","y","p","e","d","e","f"," ","s","t","r","u","c","t">>) \o <<<<"star", Space>>>> \o L(<<"{">>) \o <<<<"nstar", {"}"}>>>> \o <<<<"close", 1>>>> \o L(<<"*","*","d",";">>) \o <<<<"open", 2>>>> \o <<<<"star", Space>>>> \o L(<<"u","i","n","t","3","2","_","t"," ">>) \o <<<<"close", 2>>>> \o L(<<"n",","," ","c",";">>) \o <<<<"open", 3>>>> \o <<<<"star", Space>>>> \o L(<<"}"," ","S","y","m","b","o","l","_","V","e","c","t","o","r",";">>) \o <<<<"close", 3>>>>,
      G(1) \o R(<<"*","*","d","a","t","a",";">>) \o G(2) \o R(<<"c","o","u","n","t",","," ","c","a","p","a","c","i","t","y",";">>) \o G(3)>>,
    \* line 97: '(typedef struct\s*\{[^}]*)\*\*d;(\s*uint32_t )n, c;(\s*\} RV;)' -> '\1**data;\2count, capacity;\3'
    <<<<<<"open", 1>>>> \o L(<<"t","y","p","e","d","e","f"," ","s","t","r","u","c","t">>) \o <<<<"star", Space>>>> \o L(<<"{">>) \o <<<<"nstar", {"}"}>>>> \o <<<<"close", 1>>>> \o L(<<"*","*","d",";">>) \o <<<<"open", 2>>>> \o <<<<"star", Space>>>> \o L(<<"u","i","n","t","3","2","_","t"," ">>) \o <<<<"close", 2>>>> \o L(<<"n",","," ","c",";">>) \o <<<<"open", 3>>>> \o <<<<"star", Space>>>> \o L(<<"}"," ","R","V",";">>) \o <<<<"close", 3>>>>,
      G(1) \o R(<<"*","*","d","a","t","a",";">>) \o G(2) \o R(<<"c","o","u","n","t",","," ","c","a","p","a","c","i","t","y",";">>) \o G(3)>>,
    \* line 97: '(typedef struct\s*\{[^}]*)\*\*d;(\s*uint32_t )n, c;(\s*\} LV;)' -> '\1**data;\2count, capacity;\3'
    <<<<<<"open", 1>>>> \o L(<<"t","y","p","e","d","e","f"," ","s","t","r","u","c","t">>) \o <<<<"star", Space>>>> \o L(<<"{">>) \o <<<<"nstar", {"}"}>>>> \o <<<<"close", 1>>>> \o L(<<"*","*","d",";">>) \o <<<<"open", 2>>>> \o <<<<"star", Space>>>> \o L(<<"u","i","n","t","3","2","_","t"," ">>) \o <<<<"close", 2>>>> \o L(<<"n",","," ","c",";">>) \o <<<<"open", 3>>>> \o <<<<"star", Space>>>> \o L(<<"}"," ","L","V",";">>) \o <<<<"close", 3>>>>,
      G(1) \o R(<<"*","*","d","a","t","a",";">>) \o G(2) \o R(<<"c","o","u","n","t",","," ","c","a","p","a","c","i","t","y",";">>) \o G(3)>>,
    \* line 97: '(typedef struct\s*\{[^}]*)\*\*d;(\s*uint32_t )n, c;(\s*\} GV;)' -> '\1**data;\2count, capacity;\3'
    <<<<<<"open", 1>>>> \o L(<<"t","y","p","e","d","e","f"," ","s","t","r","u","c","t">>) \o <<<<"star", Space>>>> \o L(<<"{">>) \o <<<<"nstar", {"}"}>>>> \o <<<<"close", 1>>>> \o L(<<"*","*","d",";">>) \o <<<<"open", 2>>>> \o <<<<"star", Space>>>> \o L(<<"u","i","n","t","3","2","_","t"," ">>) \o <<<<"close", 2>>>> \o L(<<"n",","," ","c",";">>) \o <<<<"open", 3>>>> \o <<<<"star", Space>>>> \o L(<<"}"," ","G","V",";">>) \o <<<<"close", 3>>>>,
      G(1) \o R(<<"*","*","d","a","t","a",";">>) \o G(2) \o R(<<"c","o","u","n","t",","," ","c","a","p","a","c","i","t","y",";">>) \o G(3)>>,
    \* line 97: '(typedef struct\s*\{[^}]*)\*\*d;(\s*uint32_t )n, c;(\s*\} FV;)' -> '\1**data;\2count, capacity;\3'
    <<<<<<"open", 1>>>> \o L(<<"t","y","p","e","d","e","f"," ","s","t","r","u","c","t">>) \o <<<<"star", Space>>>> \o L(<<"{">>) \o <<<<"nstar", {"}"}>>>> \o <<<<"close", 1>>>> \o L(<<"*","*","d",";">>) \o <<<<"open", 2>>>> \o <<<<"star", Space>>>> \o L(<<"u","i","n","t","3","2","_","t"," ">>) \o <<<<"close", 2>>>> \o L(<<"n",","," ","c",";">>) \o <<<<"open", 3>>>> \o <<<<"star", Space>>>> \o L(<<"}"," ","F","V",";">>) \o <<<<"close", 3>>>>,
      G(1) \o R(<<"*","*","d","a","t","a",";">>) \o G(2) \o R(<<"c","o","u","n","t",","," ","c","a","p","a","c","i","t","y",";">>) \o G(3)>>,
    \* line 97: '(typedef struct\s*\{[^}]*)\*\*d;(\s*uint32_t )n, c;(\s*\} SLV;)' -> '\1**data;\2count, capacity;\3'
    <<<<<<"open", 1>>>> \o L(<<"t","y","p","e","d","e","f"," ","s","t","r","u","c","t">>) \o <<<<"star", Space>>>> \o L(<<"{">>) \o <<<<"nstar", {"}"}>>>> \o <<<<"close", 1>>>> \o L(<<"*","*","d",";">>) \o <<<<"open", 2>>>> \o <<<<"star", Space>>>> \o L(<<"u","i","n","t","3","2","_","t"," ">>) \o <<<<"close", 2>>>> \o L(<<"n",","," ","c",";">>) \o <<<<"open", 3>>>> \o <<<<"star", Space>>>> \o L(<<"}"," ","S","L","V",";">>) \o <<<<"close", 3>>>>,
      G(1) \o R(<<"*","*","d","a","t","a",";">>) \o G(2) \o R(<<"c","o","u","n","t",","," ","c","a","p","a","c","i","t","y",";">>) \o G(3)>>,
    \* line 97: '(typedef struct\s*\{[^}]*)\*\*d;(\s*uint32_t )n, c;(\s*\} LEV;)' -> '\1**data;\2count, capacity;\3'
    <<<<<<"open", 1>>>> \o L(<<"t","y","p","e","d","e","f"," ","s","t","r","u","c","t">>) \o <<<<"star", Space>>>> \o L(<<"{">>) \o <<<<"nstar", {"}"}>>>> \o <<<<"close", 1>>>> \o L(<<"*","*","d",";">>) \o <<<<"open", 2>>>> \o <<<<"star", Space>>>> \o L(<<"u","i","n","t","3","2","_","t"," ">>) \o <<<<"close", 2>>>> \o L(<<"n",","," ","c",";">>) \o <<<<"open", 3>>>> \o <<<<"star", Space>>>> \o L(<<"}"," ","L","E","V",";">>) \o <<<<"close", 3>>>>,
      G(1) \o R(<<"*","*","d","a","t","a",";">>) \o G(2) \o R(<<"c","o","u","n","t",","," ","c","a","p","a","c","i","t","y",";">>) \o G(3)>>,
    \* line 104: '(#define VECPUSH.*?if \(v->)n( >= v->)c\)' -> '\1count\2capacity)'
    <<<<<<"open", 1>>>> \o L(<<"#","d","e","f","i","n","e"," ","V","E","C","P","U","S","H">>) \o <<<<"nlazy", {}>>>> \o L(<<"i","f"," ","(","v","-",">">>) \o <<<<"close", 1>>>> \o L(<<"n">>) \o <<<<"open", 2>>>> \o L(<<" ",">","="," ","v","-",">">>) \o <<<<"close", 2>>>> \o L(<<"c",")">>),
      G(1) \o R(<<"c","o","u","n","t">>) \o G(2) \o R(<<"c","a","p","a","c","i","t","y",")">>)>>,
    \* line 109: '(v->)c( = v->)c( \? v->)c( << 1 : 8;)' -> '\1capacity\2capacity\3capacity\4'
    <<<<<<"open", 1>>>> \o L(<<"v","-",">">>) \o <<<<"close", 1>>>> \o L(<<"c">>) \o <<<<"open", 2>>>> \o L(<<" ","="," ","v","-",">">>) \o <<<<"close", 2>>>> \o L(<<"c">>) \o <<<<"open", 3>>>> \o L(<<" ","?"," ","v","-",">">>) \o <<<<"close", 3>>>> \o L(<<"c">>) \o <<<<"open", 4>>>> \o L(<<" ","<","<"," ","1"," ",":"," ","8",";">>) \o <<<<"close", 4>>>>,
      G(1) \o R(<<"c","a","p","a","c","i","t","y">>) \o G(2) \o R(<<"c","a","p","a","c","i","t","y">>) \o G(3) \o R(<<"c","a","p","a","c","i","t","y">>) \o G(4)>>,
    \* line 110: '(v->)d( = realloc\(v->)d(, v->)c' -> '\1data\2data\3capacity'
    <<<<<<"open", 1>>>> \o L(<<"v","-",">">>) \o <<<<"close", 1>>>> \o L(<<"d">>) \o <<<<"open", 2>>>> \o L(<<" ","="," ","r","e","a","l","l","o","c","(","v","-",">">>) \o <<<<"close", 2>>>> \o L(<<"d">>) \o <<<<"open", 3>>>> \o L(<<","," ","v","-",">">>) \o <<<<"close", 3>>>> \o L(<<"c">>),
      G(1) \o R(<<"d","a","t","a">>) \o G(2) \o R(<<"d","a","t","a">>) \o G(3) \o R(<<"c","a","p","a","c","i","t","y">>)>>,
    \* line 111: '(v->)d\[(v->)n\+\+\]' -> '\1data[\2count++]'
    <<<<<<"open", 1>>>> \o L(<<"v","-",">">>) \o <<<<"close", 1>>>> \o L(<<"d","[">>) \o <<<<"open", 2>>>> \o L(<<"v","-",">">>) \o <<<<"close", 2>>>> \o L(<<"n","+","+","]">>),
      G(1) \o R(<<"d","a","t","a","[">>) \o G(2) \o R(<<"c","o","u","n","t","+","+","]">>)>>,
    \* line 114: '(typedef struct\s*\{\s*Lexer )lx;(\s*Token )cr, pk;(\s*int )er;(\s*SLV )lb;(\s*\} Parser;)' -> '\1lexer;\2current_token, peek_token;\3error_count;\4label_stack;\5'
    <<<<<<"open", 1>>>> \o L(<<"t","y","p","e","d","e","f"," ","s","t","r","u","c","t">>) \o <<<<"star", Space>>>> \o L(<<"{">>) \o <<<<"star", Space>>>> \o L(<<"L","e","x","e","r"," ">>) \o <<<<"close", 1>>>> \o L(<<"l","x",";">>) \o <<<<"open", 2>>>> \o <<<<"star", Space>>>> \o L(<<"T","o","k","e","n"," ">>) \o <<<<"close", 2>>>> \o L(<<"c","r",","," ","p","k",";">>) \o <<<<"open", 3>>>> \o <<<<"star", Space>>>> \o L(<<"i","n","t"," ">>) \o <<<<"close", 3>>>> \o L(<<"e","r",";">>) \o <<<<"open", 4>>>> \o <<<<"star", Space>>>> \o L(<<"S","L","V"," ">>) \o <<<<"close", 4>>>> \o L(<<"l","b",";">>) \o <<<<"open", 5>>>> \o <<<<"star", Space>>>> \o L(<<"}"," ","P","a","r","s","e","r",";">>) \o <<<<"close", 5>>>>,
      G(1) \o R(<<"l","e","x","e","r",";">>) \o G(2) \o R(<<"c","u","r","r","e","n","t","_","t","o","k","e","n",","," ","p","e","e","k","_","t","o","k","e","n",";">>) \o G(3) \o R(<<"e","r","r","o","r","_","c","o","u","n","t",";">>) \o G(4) \o R(<<"l","a","b","e","l","_","s","t","a","c","k",";">>) \o G(5)>>,
    \* line 121: '(struct LU\s*\{\s*uint8_t )k;' -> '\1kind;'
    <<<<<<"open", 1>>>> \o L(<<"s","t","r","u","c","t"," ","L","U">>) \o <<<<"star", Space>>>> \o L(<<"{">>) \o <<<<"star", Space>>>> \o L(<<"u","i","n","t","8","_","t"," ">>) \o <<<<"close", 1>>>> \o L(<<"k",";">>),
      G(1) \o R(<<"k","i","n","d",";">>)>>,
    \* line 122: '(String_Slice )nm;(\s*String_Slice )pth;' -> '\1name;\2path;'
    <<<<<<"open", 1>>>> \o L(<<"S","t","r","i","n","g","_","S","l","i","c","e"," ">>) \o <<<<"close", 1>>>> \o L(<<"n","m",";">>) \o <<<<"open", 2>>>> \o <<<<"star", Space>>>> \o L(<<"S","t","r","i","n","g","_","S","l","i","c","e"," ">>) \o <<<<"close", 2>>>> \o L(<<"p","t","h",";">>),
      G(1) \o R(<<"n","a","m","e",";">>) \o G(2) \o R(<<"p","a","t","h",";">>)>>,
    \* line 123: '(Syntax_Node \*)sp;(\s*Syntax_Node \*)bd;(\s*LV )wth;(\s*LV )elb;' -> '\1spec;\2body;\3with_list;\4elaborates;'
    <<<<<<"open", 1>>>> \o L(<<"S","y","n","t","a","x","_","N","o","d","e"," ","*">>) \o <<<<"close", 1>>>> \o L(<<"s","p",";">>) \o <<<<"open", 2>>>> \o <<<<"star", Space>>>> \o L(<<"S","y","n","t","a","x","_","N","o","d","e"," ","*">>) \o <<<<"close", 2>>>> \o L(<<"b","d",";">>) \o <<<<"open", 3>>>> \o <<<<"star", Space>>>> \o L(<<"L","V"," ">>) \o <<<<"close", 3>>>> \o L(<<"w","t","h",";">>) \o <<<<"open", 4>>>> \o <<<<"star", Space>>>> \o L(<<"L","V"," ">>) \o <<<<"close", 4>>>> \o L(<<"e","l","b",";">>),
      G(1) \o R(<<"s","p","e","c",";">>) \o G(2) \o R(<<"b","o","d","y",";">>) \o G(3) \o R(<<"w","i","t","h","_","l","i","s","t",";">>) \o G(4) \o R(<<"e","l","a","b","o","r","a","t","e","s",";">>)>>,
    \* line 125: '(uint64_t )ts;(\s*bool )cmpl;' -> '\1timestamp;\2complete;'
    <<<<<<"open", 1>>>> \o L(<<"u","i","n","t","6","4","_","t"," ">>) \o <<<<"close", 1>>>> \o L(<<"t","s",";">>) \o <<<<"open", 2>>>> \o <<<<"star", Space>>>> \o L(<<"b","o","o","l"," ">>) \o <<<<"close", 2>>>> \o L(<<"c","m","p","l",";">>),
      G(1) \o R(<<"t","i","m","e","s","t","a","m","p",";">>) \o G(2) \o R(<<"c","o","m","p","l","e","t","e",";">>)>>,
    \* line 128: '(struct GT\s*\{[^}]*Node_Vector )fp;([^}]*Node_Vector )dc;([^}]*Syntax_Node \*)un;([^}]*Syntax_Node \*)bd;' -> '\1formal_parameters;\2declarations;\3unit;\4body;'
    <<<<<<"open", 1>>>> \o L(<<"s","t","r","u","c","t"," ","G","T">>) \o <<<<"star", Space>>>> \o L(<<"{">>) \o <<<<"nstar", {"}"}>>>> \o L(<<"N","o","d","e","_","V","e","c","t","o","r"," ">>) \o <<<<"close", 1>>>> \o L(<<"f","p",";">>) \o <<<<"open", 2>>>> \o <<<<"nstar", {"}"}>>>> \o L(<<"N","o","d","e","_","V","e","c","t","o","r"," ">>) \o <<<<"close", 2>>>> \o L(<<"d","c",";">>) \o <<<<"open", 3>>>> \o <<<<"nstar", {"}"}>>>> \o L(<<"S","y","n","t","a","x","_","N","o","d","e"," ","*">>) \o <<<<"close", 3>>>> \o L(<<"u","n",";">>) \o <<<<"open", 4>>>> \o <<<<"nstar", {"}"}>>>> \o L(<<"S","y","n","t","a","x","_","N","o","d","e"," ","*">>) \o <<<<"close", 4>>>> \o L(<<"b","d",";">>),
      G(1) \o R(<<"f","o","r","m","a","l","_","p","a","r","a","m","e","t","e","r","s",";">>) \o G(2) \o R(<<"d","e","c","l","a","r","a","t","i","o","n","s",";">>) \o G(3) \o R(<<"u","n","i","t",";">>) \o G(4) \o R(<<"b","o","d","y",";">>)>>,
    \* line 132: '(struct RC\s*\{\s*uint8_t )k;(\s*Type_Info \*)ty;' -> '\1kind;\2type_info;'
    <<<<<<"open", 1>>>> \o L(<<"s","t","r","u","c","t"," ","R","C">>) \o <<<<"star", Space>>>> \o L(<<"{">>) \o <<<<"star", Space>>>> \o L(<<"u","i","n","t","8","_","t"," ">>) \o <<<<"close", 1>>>> \o L(<<"k",";">>) \o <<<<"open", 2>>>> \o <<<<"star", Space>>>> \o L(<<"T","y","p","e","_","I","n","f","o"," ","*">>) \o <<<<"close", 2>>>> \o L(<<"t","y",";">>),
      G(1) \o R(<<"k","i","n","d",";">>) \o G(2) \o R(<<"t","y","p","e","_","i","n","f","o",";">>)>>,
    \* line 137: '\.ui\b' -> '.unsigned_integer'
    <<L(<<".","u","i">>) \o WB,
      R(<<".","u","n","s","i","g","n","e","d","_","i","n","t","e","g","e","r">>)>>,
    \* line 138: '->ui\b' -> '->unsigned_integer'
    <<L(<<"-",">","u","i">>) \o WB,
      R(<<"-",">","u","n","s","i","g","n","e","d","_","i","n","t","e","g","e","r">>)>>,
    \* line 139: '\.ur\b' -> '.unsigned_rational'
    <<L(<<".","u","r">>) \o WB,
      R(<<".","u","n","s","i","g","n","e","d","_","r","a","t","i","o","n","a","l">>)>>,
    \* line 140: '->ur\b' -> '->unsigned_rational'
    <<L(<<"-",">","u","r">>) \o WB,
      R(<<"-",">","u","n","s","i","g","n","e","d","_","r","a","t","i","o","n","a","l">>)>>,
    \* line 141: '\.iv\b' -> '.integer_value'
    <<L(<<".","i","v">>) \o WB,
      R(<<".","i","n","t","e","g","e","r","_","v","a","l","u","e">>)>>,
    \* line 142: '->iv\b' -> '->integer_value'
    <<L(<<"-",">","i","v">>) \o WB,
      R(<<"-",">","i","n","t","e","g","e","r","_","v","a","l","u","e">>)>>,
    \* line 143: '\.fv\b' -> '.float_value'
    <<L(<<".","f","v">>) \o WB,
      R(<<".","f","l","o","a","t","_","v","a","l","u","e">>)>>,
    \* line 144: '->fv\b' -> '->float_value'
    <<L(<<"-",">","f","v">>) \o WB,
      R(<<"-",">","f","l","o","a","t","_","v","a","l","u","e">>)>>,
    \* line 145: '\.lit\b' -> '.literal'
    <<L(<<".","l","i","t">>) \o WB,
      R(<<".","l","i","t","e","r","a","l">>)>>,
    \* line 146: '->lit\b' -> '->literal'
    <<L(<<"-",">","l","i","t">>) \o WB,
      R(<<"-",">","l","i","t","e","r","a","l">>)>>,
    \* line 149: '->ln\b' -> '->line_number'
    <<L(<<"-",">","l","n">>) \o WB,
      R(<<"-",">","l","i","n","e","_","n","u","m","b","e","r">>)>>,
    \* line 150: '\.ln\b' -> '.line_number'
    <<L(<<".","l","n">>) \o WB,
      R(<<".","l","i","n","e","_","n","u","m","b","e","r">>)>>,
    \* line 151: '->cl\b' -> '->column'
    <<L(<<"-",">","c","l">>) \o WB,
      R(<<"-",">","c","o","l","u","m","n">>)>>,
    \* line 152: '\.cl\b' -> '.column'
    <<L(<<".","c","l">>) \o WB,
      R(<<".","c","o","l","u","m","n">>)>>,
    \* line 153: '->pt\b' -> '->previous_token'
    <<L(<<"-",">","p","t">>) \o WB,
      R(<<"-",">","p","r","e","v","i","o","u","s","_","t","o","k","e","n">>)>>,
    \* line 154: '\.pt\b' -> '.previous_token'
    <<L(<<".","p","t">>) \o WB,
      R(<<".","p","r","e","v","i","o","u","s","_","t","o","k","e","n">>)>>,
    \* line 157: '->lx\b' -> '->lexer'
    <<L(<<"-",">","l","x">>) \o WB,
      R(<<"-",">","l","e","x","e","r">>)>>,
    \* line 158: '\.lx\b' -> '.lexer'
    <<L(<<".","l","x">>) \o WB,
      R(<<".","l","e","x","e","r">>)>>,
    \* line 159: '->cr\b' -> '->current_token'
    <<L(<<"-",">","c","r">>) \o WB,
      R(<<"-",">","c","u","r","r","e","n","t","_","t","o","k","e","n">>)>>,
    \* line 160: '\.cr\b' -> '.current_token'
    <<L(<<".","c","r">>) \o WB,
      R(<<".","c","u","r","r","e","n","t","_","t","o","k","e","n">>)>>,
    \* line 161: '->pk\b' -> '->peek_token'
    <<L(<<"-",">","p","k">>) \o WB,
      R(<<"-",">","p","e","e","k","_","t","o","k","e","n">>)>>,
    \* line 162: '\.pk\b' -> '.peek_token'
    <<L(<<".","p","k">>) \o WB,
      R(<<".","p","e","e","k","_","t","o","k","e","n">>)>>,
    \* line 163: '->er\b' -> '->error_count'
    <<L(<<"-",">","e","r">>) \o WB,
      R(<<"-",">","e","r","r","o","r","_","c","o","u","n","t">>)>>,
    \* line 164: '\.er\b' -> '.error_count'
    <<L(<<".","e","r">>) \o WB,
      R(<<".","e","r","r","o","r","_","c","o","u","n","t">>)>>,
    \* line 165: '->lb\b' -> '->label_stack'
    <<L(<<"-",">","l","b">>) \o WB,
      R(<<"-",">","l","a","b","e","l","_","s","t","a","c","k">>)>>,
    \* line 166: '\.lb\b' -> '.label_stack'
    <<L(<<".","l","b">>) \o WB,
      R(<<".","l","a","b","e","l","_","s","t","a","c","k">>)>>,
    \* line 169: '->lo\b' -> '->low_bound'
    <<L(<<"-",">","l","o">>) \o WB,
      R(<<"-",">","l","o","w","_","b","o","u","n","d">>)>>,
    \* line 170: '\.lo\b' -> '.low_bound'
    <<L(<<".","l","o">>) \o WB,
      R(<<".","l","o","w","_","b","o","u","n","d">>)>>,
    \* line 171: '->hi\b' -> '->high_bound'
    <<L(<<"-",">","h","i">>) \o WB,
      R(<<"-",">","h","i","g","h","_","b","o","u","n","d">>)>>,
    \* line 172: '\.hi\b' -> '.high_bound'
    <<L(<<".","h","i">>) \o WB,
      R(<<".","h","i","g","h","_","b","o","u","n","d">>)>>,
    \* line 175: '->cnt\b' -> '->count'
    <<L(<<"-",">","c","n","t">>) \o WB,
      R(<<"-",">","c","o","u","n","t">>)>>,
    \* line 176: '\.cnt\b' -> '.count'
    <<L(<<".","c","n","t">>) \o WB,
      R(<<".","c","o","u","n","t">>)>>,
    \* line 177: '->mx\b' -> '->maximum'
    <<L(<<"-",">","m","x">>) \o WB,
      R(<<"-",">","m","a","x","i","m","u","m">>)>>,
    \* line 178: '\.mx\b' -> '.maximum'
    <<L(<<".","m","x">>) \o WB,
      R(<<".","m","a","x","i","m","u","m">>)>>,
    \* line 181: '->k\b' -> '->kind'
    <<L(<<"-",">","k">>) \o WB,
      R(<<"-",">","k","i","n","d">>)>>,
    \* line 182: '\.k\b' -> '.kind'
    <<L(<<".","k">>) \o WB,
      R(<<".","k","i","n","d">>)>>,
    \* line 183: '->nm\b' -> '->name'
    <<L(<<"-",">","n","m">>) \o WB,
      R(<<"-",">","n","a","m","e">>)>>,
    \* line 184: '\.nm\b' -> '.name'
    <<L(<<".","n","m">>) \o WB,
      R(<<".","n","a","m","e">>)>>,
    \* line 185: '->bb\b' -> '->basic_block'
    <<L(<<"-",">","b","b">>) \o WB,
      R(<<"-",">","b","a","s","i","c","_","b","l","o","c","k">>)>>,
    \* line 186: '\.bb\b' -> '.basic_block'
    <<L(<<".","b","b">>) \o WB,
      R(<<".","b","a","s","i","c","_","b","l","o","c","k">>)>>,
    \* line 187: '->ty\b' -> '->type_info'
    <<L(<<"-",">","t","y">>) \o WB,
      R(<<"-",">","t","y","p","e","_","i","n","f","o">>)>>,
    \* line 188: '\.ty\b' -> '.type_info'
    <<L(<<".","t","y">>) \o WB,
      R(<<".","t","y","p","e","_","i","n","f","o">>)>>,
    \* line 191: '(\w+)\.s\b(?!t|p|i|y)' -> '\1.string'
    <<<<<<"open", 1>>>> \o <<<<"in", Word>>>> \o <<<<"star", Word>>>> \o <<<<"close", 1>>>> \o L(<<".","s">>) \o WB \o <<<<"nla", <<<<<<"in", {"t","p","i","y"}>>>>>>>>>>,
      G(1) \o R(<<".","s","t","r","i","n","g">>)>>,
    \* line 192: '(\w+)->s\b(?!t|p|i|y)' -> '\1->string'
    <<<<<<"open", 1>>>> \o <<<<"in", Word>>>> \o <<<<"star", Word>>>> \o <<<<"close", 1>>>> \o L(<<"-",">","s">>) \o WB \o <<<<"nla", <<<<<<"in", {"t","p","i","y"}>>>>>>>>>>,
      G(1) \o R(<<"-",">","s","t","r","i","n","g">>)>>,
    \* line 195: '->n\b' -> '->count'
    <<L(<<"-",">","n">>) \o WB,
      R(<<"-",">","c","o","u","n","t">>)>>,
    \* line 196: '\.n\b' -> '.count'
    <<L(<<".","n">>) \o WB,
      R(<<".","c","o","u","n","t">>)>>,
    \* line 197: '->c\b' -> '->capacity'
    <<L(<<"-",">","c">>) \o WB,
      R(<<"-",">","c","a","p","a","c","i","t","y">>)>>,
    \* line 198: '\.c\b' -> '.capacity'
    <<L(<<".","c">>) \o WB,
      R(<<".","c","a","p","a","c","i","t","y">>)>>,
    \* line 199: '->d\b' -> '->data'
    <<L(<<"-",">","d">>) \o WB,
      R(<<"-",">","d","a","t","a">>)>>,
    \* line 200: '\.d\b' -> '.data'
    <<L(<<".","d">>) \o WB,
      R(<<".","d","a","t","a">>)>>,
    \* line 201: '->b\b' -> '->base'
    <<L(<<"-",">","b">>) \o WB,
      R(<<"-",">","b","a","s","e">>)>>,
    \* line 202: '\.b\b' -> '.base'
    <<L(<<".","b">>) \o WB,
      R(<<".","b","a","s","e">>)>>,
    \* line 203: '->p\b' -> '->pointer'
    <<L(<<"-",">","p">>) \o WB,
      R(<<"-",">","p","o","i","n","t","e","r">>)>>,
    \* line 204: '\.p\b' -> '.pointer'
    <<L(<<".","p">>) \o WB,
      R(<<".","p","o","i","n","t","e","r">>)>>,
    \* line 205: '->e\b' -> '->end'
    <<L(<<"-",">","e">>) \o WB,
      R(<<"-",">","e","n","d">>)>>,
    \* line 206: '\.e\b' -> '.end'
    <<L(<<".","e">>) \o WB,
      R(<<".","e","n","d">>)>>,
    \* line 207: '->m\b' -> '->mutex'
    <<L(<<"-",">","m">>) \o WB,
      R(<<"-",">","m","u","t","e","x">>)>>,
    \* line 208: '\.m\b' -> '.mutex'
    <<L(<<".","m">>) \o WB,
      R(<<".","m","u","t","e","x">>)>>,
    \* line 209: '->q\b' -> '->queue'
    <<L(<<"-",">","q">>) \o WB,
      R(<<"-",">","q","u","e","u","e">>)>>,
    \* line 210: '\.q\b' -> '.queue'
    <<L(<<".","q">>) \o WB,
      R(<<".","q","u","e","u","e">>)>>,
    \* line 211: '->t\b' -> '->thread'
    <<L(<<"-",">","t">>) \o WB,
      R(<<"-",">","t","h","r","e","a","d">>)>>,
    \* line 212: '\.t\b' -> '.thread'
    <<L(<<".","t">>) \o WB,
      R(<<".","t","h","r","e","a","d">>)>>,
    \* line 213: '->l\b' -> '->location'
    <<L(<<"-",">","l">>) \o WB,
      R(<<"-",">","l","o","c","a","t","i","o","n">>)>>,
    \* line 214: '\.l\b' -> '.location'
    <<L(<<".","l">>) \o WB,
      R(<<".","l","o","c","a","t","i","o","n">>)>>,
    \* line 215: '->f\b' -> '->filename'
    <<L(<<"-",">","f">>) \o WB,
      R(<<"-",">","f","i","l","e","n","a","m","e">>)>>,
    \* line 216: '\.f\b' -> '.filename'
    <<L(<<".","f">>) \o WB,
      R(<<".","f","i","l","e","n","a","m","e">>)>>,
    \* line 219: '\(u\)->count' -> '(u)->count'
    <<L(<<"(","u",")","-",">","c","o","u","n","t">>),
      R(<<"(","u",")","-",">","c","o","u","n","t">>)>>,
    \* line 220: '\(u\)->digits' -> '(u)->digits'
    <<L(<<"(","u",")","-",">","d","i","g","i","t","s">>),
      R(<<"(","u",")","-",">","d","i","g","i","t","s">>)>>,
    \* line 221: '\(u\)->is_negative' -> '(u)->is_negative'
    <<L(<<"(","u",")","-",">","i","s","_","n","e","g","a","t","i","v","e">>),
      R(<<"(","u",")","-",">","i","s","_","n","e","g","a","t","i","v","e">>)>>
  >>

\* expand_all_identifiers.py, lines 18-186 (expand_struct_fields)
ESF_Rules ==
  <<
    \* line 18: '(\w+)->d\b(?!\w)' -> '\1->digits'
    <<<<<<"open", 1>>>> \o <<<<"in", Word>>>> \o <<<<"star", Word>>>> \o <<<<"close", 1>>>> \o L(<<"-",">","d">>) \o WB \o <<<<"nla", <<<<<<"in", Word>>>>>>>>>>,
      G(1) \o R(<<"-",">","d","i","g","i","t","s">>)>>,
    \* line 19: '(\w+)->n\b(?!\w)' -> '\1->count'
    <<<<<<"open", 1>>>> \o <<<<"in", Word>>>> \o <<<<"star", Word>>>> \o <<<<"close", 1>>>> \o L(<<"-",">","n">>) \o WB \o <<<<"nla", <<<<<<"in", Word>>>>>>>>>>,
      G(1) \o R(<<"-",">","c","o","u","n","t">>)>>,
    \* line 20: '(\w+)->c\b(?!\w)' -> '\1->capacity'
    <<<<<<"open", 1>>>> \o <<<<"in", Word>>>> \o <<<<"star", Word>>>> \o <<<<"close", 1>>>> \o L(<<"-",">","c">>) \o WB \o <<<<"nla", <<<<<<"in", Word>>>>>>>>>>,
      G(1) \o R(<<"-",">","c","a","p","a","c","i","t","y">>)>>,
    \* line 21: '(\w+)->s\b(?!\w)' -> '\1->is_negative'
    <<<<<<"open", 1>>>> \o <<<<"in", Word>>>> \o <<<<"star", Word>>>> \o <<<<"close", 1>>>> \o L(<<"-",">","s">>) \o WB \o <<<<"nla", <<<<<<"in", Word>>>>>>>>>>,
      G(1) \o R(<<"-",">","i","s","_","n","e","g","a","t","i","v","e">>)>>,
    \* line 22: '(\w+)\.d\b(?!\w)' -> '\1.digits'
    <<<<<<"open", 1>>>> \o <<<<"in", Word>>>> \o <<<<"star", Word>>>> \o <<<<"close", 1>>>> \o L(<<".","d">>) \o WB \o <<<<"nla", <<<<<<"in", Word>>>>>>>>>>,
      G(1) \o R(<<".","d","i","g","i","t","s">>)>>,
    \* line 23: '(\w+)\.n\b(?!\w)' -> '\1.count'
    <<<<<<"open", 1>>>> \o <<<<"in", Word>>>> \o <<<<"star", Word>>>> \o <<<<"close", 1>>>> \o L(<<".","n">>) \o WB \o <<<<"nla", <<<<<<"in", Word>>>>>>>>>>,
      G(1) \o R(<<".","c","o","u","n","t">>)>>,
    \* line 24: '(\w+)\.c\b(?!\w)' -> '\1.capacity'
    <<<<<<"open", 1>>>> \o <<<<"in", Word>>>> \o <<<<"star", Word>>>> \o <<<<"close", 1>>>> \o L(<<".","c">>) \o WB \o <<<<"nla", <<<<<<"in", Word>>>>>>>>>>,
      G(1) \o R(<<".","c","a","p","a","c","i","t","y">>)>>,
    \* line 25: '(\w+)\.s\b(?!\w)' -> '\1.is_negative'
    <<<<<<"open", 1>>>> \o <<<<"in", Word>>>> \o <<<<"star", Word>>>> \o <<<<"close", 1>>>> \o L(<<".","s">>) \o WB \o <<<<"nla", <<<<<<"in", Word>>>>>>>>>>,
      G(1) \o R(<<".","i","s","_","n","e","g","a","t","i","v","e">>)>>,
    \* line 28: '->lo\b' -> '->low_bound'
    <<L(<<"-",">","l","o">>) \o WB,
      R(<<"-",">","l","o","w","_","b","o","u","n","d">>)>>,
    \* line 29: '->hi\b' -> '->high_bound'
    <<L(<<"-",">","h","i">>) \o WB,
      R(<<"-",">","h","i","g","h","_","b","o","u","n","d">>)>>,
    \* line 30: '\.lo\b' -> '.low_bound'
    <<L(<<".","l","o">>) \o WB,
      R(<<".","l","o","w","_","b","o","u","n","d">>)>>,
    \* line 31: '\.hi\b' -> '.high_bound'
    <<L(<<".","h","i">>) \o WB,
      R(<<".","h","i","g","h","_","b","o","u","n","d">>)>>,
    \* line 34: '->m\b(?=\s*[;,)])' -> '->mutex'
    <<L(<<"-",">","m">>) \o WB \o <<<<"pla", <<<<<<"star", Space>>>> \o <<<<"in", {";",",",")"}>>>>>>>>>>,
      R(<<"-",">","m","u","t","e","x">>)>>,
    \* line 35: '->cnt\b' -> '->count'
    <<L(<<"-",">","c","n","t">>) \o WB,
      R(<<"-",">","c","o","u","n","t">>)>>,
    \* line 36: '->mx\b' -> '->maximum'
    <<L(<<"-",">","m","x">>) \o WB,
      R(<<"-",">","m","a","x","i","m","u","m">>)>>,
    \* line 37: '\.m\b(?=\s*[;,)])' -> '.mutex'
    <<L(<<".","m">>) \o WB \o <<<<"pla", <<<<<<"star", Space>>>> \o <<<<"in", {";",",",")"}>>>>>>>>>>,
      R(<<".","m","u","t","e","x">>)>>,
    \* line 38: '\.cnt\b' -> '.count'
    <<L(<<".","c","n","t">>) \o WB,
      R(<<".","c","o","u","n","t">>)>>,
    \* line 39: '\.mx\b' -> '.maximum'
    <<L(<<".","m","x">>) \o WB,
      R(<<".","m","a","x","i","m","u","m">>)>>,
    \* line 42: '->t\b(?=\s*[;,)])' -> '->thread'
    <<L(<<"-",">","t">>) \o WB \o <<<<"pla", <<<<<<"star", Space>>>> \o <<<<"in", {";",",",")"}>>>>>>>>>>,
      R(<<"-",">","t","h","r","e","a","d">>)>>,
    \* line 43: '->q\b(?=\s*[;,)])' -> '->queue'
    <<L(<<"-",">","q">>) \o WB \o <<<<"pla", <<<<<<"star", Space>>>> \o <<<<"in", {";",",",")"}>>>>>>>>>>,
      R(<<"-",">","q","u","e","u","e">>)>>,
    \* line 44: '\.t\b(?=\s*[;,)])' -> '.thread'
    <<L(<<".","t">>) \o WB \o <<<<"pla", <<<<<<"star", Space>>>> \o <<<<"in", {";",",",")"}>>>>>>>>>>,
      R(<<".","t","h","r","e","a","d">>)>>,
    \* line 45: '\.q\b(?=\s*[;,)])' -> '.queue'
    <<L(<<".","q">>) \o WB \o <<<<"pla", <<<<<<"star", Space>>>> \o <<<<"in", {";",",",")"}>>>>>>>>>>,
      R(<<".","q","u","e","u","e">>)>>,
    \* line 48: '->b\b(?=\s*[;,)])' -> '->base'
    <<L(<<"-",">","b">>) \o WB \o <<<<"pla", <<<<<<"star", Space>>>> \o <<<<"in", {";",",",")"}>>>>>>>>>>,
      R(<<"-",">","b","a","s","e">>)>>,
    \* line 49: '->p\b(?=\s*[;,)])' -> '->pointer'
    <<L(<<"-",">","p">>) \o WB \o <<<<"pla", <<<<<<"star", Space>>>> \o <<<<"in", {";",",",")"}>>>>>>>>>>,
      R(<<"-",">","p","o","i","n","t","e","r">>)>>,
    \* line 50: '->e\b(?=\s*[;,)])' -> '->end'
    <<L(<<"-",">","e">>) \o WB \o <<<<"pla", <<<<<<"star", Space>>>> \o <<<<"in", {";",",",")"}>>>>>>>>>>,
      R(<<"-",">","e","n","d">>)>>,
    \* line 51: '\.b\b(?=\s*[;,)])' -> '.base'
    <<L(<<".","b">>) \o WB \o <<<<"pla", <<<<<<"star", Space>>>> \o <<<<"in", {";",",",")"}>>>>>>>>>>,
      R(<<".","b","a","s","e">>)>>,
    \* line 52: '\.p\b(?=\s*[;,)])' -> '.pointer'
    <<L(<<".","p">>) \o WB \o <<<<"pla", <<<<<<"star", Space>>>> \o <<<<"in", {";",",",")"}>>>>>>>>>>,
      R(<<".","p","o","i","n","t","e","r">>)>>,
    \* line 53: '\.e\b(?=\s*[;,)])' -> '.end'
    <<L(<<".","e">>) \o WB \o <<<<"pla", <<<<<<"star", Space>>>> \o <<<<"in", {";",",",")"}>>>>>>>>>>,
      R(<<".","e","n","d">>)>>,
    \* line 57: 'String_Slice\s+(\w+)\s*=\s*\{([^}]*?)\.s\b' -> 'String_Slice \1 = {\2.string'
    <<L(<<"S","t","r","i","n","g","_","S","l","i","c","e">>) \o <<<<"in", Space>>>> \o <<<<"star", Space>>>> \o <<<<"open", 1>>>> \o <<<<"in", Word>>>> \o <<<<"star", Word>>>> \o <<<<"close", 1>>>> \o <<<<"star", Space>>>> \o L(<<"=">>) \o <<<<"star", Space>>>> \o L(<<"{">>) \o <<<<"open", 2>>>> \o <<<<"nlazy", {"}"}>>>> \o <<<<"close", 2>>>> \o L(<<".","s">>) \o WB,
      R(<<"S","t","r","i","n","g","_","S","l","i","c","e"," ">>) \o G(1) \o R(<<" ","="," ","{">>) \o G(2) \o R(<<".","s","t","r","i","n","g">>)>>,
    \* line 61: '(\w+)->t\b(?=\s*[;,)=])' -> '\1->kind'
    <<<<<<"open", 1>>>> \o <<<<"in", Word>>>> \o <<<<"star", Word>>>> \o <<<<"close", 1>>>> \o L(<<"-",">","t">>) \o WB \o <<<<"pla", <<<<<<"star", Space>>>> \o <<<<"in", {";",",",")","="}>>>>>>>>>>,
      G(1) \o R(<<"-",">","k","i","n","d">>)>>,
    \* line 62: '(\w+)->l\b(?=\s*[;,)=.])' -> '\1->location'
    <<<<<<"open", 1>>>> \o <<<<"in", Word>>>> \o <<<<"star", Word>>>> \o <<<<"close", 1>>>> \o L(<<"-",">","l">>) \o WB \o <<<<"pla", <<<<<<"star", Space>>>> \o <<<<"in", {";",",",")","=","."}>>>>>>>>>>,
      G(1) \o R(<<"-",">","l","o","c","a","t","i","o","n">>)>>,
    \* line 63: '(\w+)->iv\b' -> '\1->integer_value'
    <<<<<<"open", 1>>>> \o <<<<"in", Word>>>> \o <<<<"star", Word>>>> \o <<<<"close", 1>>>> \o L(<<"-",">","i","v">>) \o WB,
      G(1) \o R(<<"-",">","i","n","t","e","g","e","r","_","v","a","l","u","e">>)>>,
    \* line 64: '(\w+)->fv\b' -> '\1->float_value'
    <<<<<<"open", 1>>>> \o <<<<"in", Word>>>> \o <<<<"star", Word>>>> \o <<<<"close", 1>>>> \o L(<<"-",">","f","v">>) \o WB,
      G(1) \o R(<<"-",">","f","l","o","a","t","_","v","a","l","u","e">>)>>,
    \* line 65: '(\w+)->ui\b' -> '\1->unsigned_integer'
    <<<<<<"open", 1>>>> \o <<<<"in", Word>>>> \o <<<<"star", Word>>>> \o <<<<"close", 1>>>> \o L(<<"-",">","u","i">>) \o WB,
      G(1) \o R(<<"-",">","u","n","s","i","g","n","e","d","_","i","n","t","e","g","e","r">>)>>,
    \* line 66: '(\w+)->ur\b' -> '\1->unsigned_rational'
    <<<<<<"open", 1>>>> \o <<<<"in", Word>>>> \o <<<<"star", Word>>>> \o <<<<"close", 1>>>> \o L(<<"-",">","u","r">>) \o WB,
      G(1) \o R(<<"-",">","u","n","s","i","g","n","e","d","_","r","a","t","i","o","n","a","l">>)>>,
    \* line 67: '(\w+)\.t\b(?=\s*[;,)=])' -> '\1.kind'
    <<<<<<"open", 1>>>> \o <<<<"in", Word>>>> \o <<<<"star", Word>>>> \o <<<<"close", 1>>>> \o L(<<".","t">>) \o WB \o <<<<"pla", <<<<<<"star", Space>>>> \o <<<<"in", {";",",",")","="}>>>>>>>>>>,
      G(1) \o R(<<".","k","i","n","d">>)>>,
    \* line 68: '(\w+)\.l\b(?=\s*[;,)=.])' -> '\1.location'
    <<<<<<"open", 1>>>> \o <<<<"in", Word>>>> \o <<<<"star", Word>>>> \o <<<<"close", 1>>>> \o L(<<".","l">>) \o WB \o <<<<"pla", <<<<<<"star", Space>>>> \o <<<<"in", {";",",",")","=","."}>>>>>>>>>>,
      G(1) \o R(<<".","l","o","c","a","t","i","o","n">>)>>,
    \* line 69: '(\w+)\.iv\b' -> '\1.integer_value'
    <<<<<<"open", 1>>>> \o <<<<"in", Word>>>> \o <<<<"star", Word>>>> \o <<<<"close", 1>>>> \o L(<<".","i","v">>) \o WB,
      G(1) \o R(<<".","i","n","t","e","g","e","r","_","v","a","l","u","e">>)>>,
    \* line 70: '(\w+)\.fv\b' -> '\1.float_value'
    <<<<<<"open", 1>>>> \o <<<<"in", Word>>>> \o <<<<"star", Word>>>> \o <<<<"close", 1>>>> \o L(<<".","f","v">>) \o WB,
      G(1) \o R(<<".","f","l","o","a","t","_","v","a","l","u","e">>)>>,
    \* line 73: '->ln\b' -> '->line_number'
    <<L(<<"-",">","l","n">>) \o WB,
      R(<<"-",">","l","i","n","e","_","n","u","m","b","e","r">>)>>,
    \* line 74: '->cl\b' -> '->column'
    <<L(<<"-",">","c","l">>) \o WB,
      R(<<"-",">","c","o","l","u","m","n">>)>>,
    \* line 75: '->pt\b' -> '->previous_token'
    <<L(<<"-",">","p","t">>) \o WB,
      R(<<"-",">","p","r","e","v","i","o","u","s","_","t","o","k","e","n">>)>>,
    \* line 76: '\.ln\b' -> '.line_number'
    <<L(<<".","l","n">>) \o WB,
      R(<<".","l","i","n","e","_","n","u","m","b","e","r">>)>>,
    \* line 77: '\.cl\b' -> '.column'
    <<L(<<".","c","l">>) \o WB,
      R(<<".","c","o","l","u","m","n">>)>>,
    \* line 78: '\.pt\b' -> '.previous_token'
    <<L(<<".","p","t">>) \o WB,
      R(<<".","p","r","e","v","i","o","u","s","_","t","o","k","e","n">>)>>,
    \* line 81: '->k\b(?=\s*[;,)=])' -> '->node_kind'
    <<L(<<"-",">","k">>) \o WB \o <<<<"pla", <<<<<<"star", Space>>>> \o <<<<"in", {";",",",")","="}>>>>>>>>>>,
      R(<<"-",">","n","o","d","e","_","k","i","n","d">>)>>,
    \* line 82: '->ty\b(?=\s*[;,)=.])' -> '->type_info'
    <<L(<<"-",">","t","y">>) \o WB \o <<<<"pla", <<<<<<"star", Space>>>> \o <<<<"in", {";",",",")","=","."}>>>>>>>>>>,
      R(<<"-",">","t","y","p","e","_","i","n","f","o">>)>>,
    \* line 83: '->sy\b(?=\s*[;,)=.])' -> '->symbol_ref'
    <<L(<<"-",">","s","y">>) \o WB \o <<<<"pla", <<<<<<"star", Space>>>> \o <<<<"in", {";",",",")","=","."}>>>>>>>>>>,
      R(<<"-",">","s","y","m","b","o","l","_","r","e","f">>)>>,
    \* line 84: '\.k\b(?=\s*[;,)=])' -> '.node_kind'
    <<L(<<".","k">>) \o WB \o <<<<"pla", <<<<<<"star", Space>>>> \o <<<<"in", {";",",",")","="}>>>>>>>>>>,
      R(<<".","n","o","d","e","_","k","i","n","d">>)>>,
    \* line 85: '\.ty\b(?=\s*[;,)=.])' -> '.type_info'
    <<L(<<".","t","y">>) \o WB \o <<<<"pla", <<<<<<"star", Space>>>> \o <<<<"in", {";",",",")","=","."}>>>>>>>>>>,
      R(<<".","t","y","p","e","_","i","n","f","o">>)>>,
    \* line 86: '\.sy\b(?=\s*[;,)=.])' -> '.symbol_ref'
    <<L(<<".","s","y">>) \o WB \o <<<<"pla", <<<<<<"star", Space>>>> \o <<<<"in", {";",",",")","=","."}>>>>>>>>>>,
      R(<<".","s","y","m","b","o","l","_","r","e","f">>)>>,
    \* line 89: '->bb\b' -> '->basic_block'
    <<L(<<"-",">","b","b">>) \o WB,
      R(<<"-",">","b","a","s","i","c","_","b","l","o","c","k">>)>>,
    \* line 90: '\.bb\b' -> '.basic_block'
    <<L(<<".","b","b">>) \o WB,
      R(<<".","b","a","s","i","c","_","b","l","o","c","k">>)>>,
    \* line 93: '->lx\b' -> '->lexer'
    <<L(<<"-",">","l","x">>) \o WB,
      R(<<"-",">","l","e","x","e","r">>)>>,
    \* line 94: '->cr\b' -> '->current_token'
    <<L(<<"-",">","c","r">>) \o WB,
      R(<<"-",">","c","u","r","r","e","n","t","_","t","o","k","e","n">>)>>,
    \* line 95: '->pk\b' -> '->peek_token'
    <<L(<<"-",">","p","k">>) \o WB,
      R(<<"-",">","p","e","e","k","_","t","o","k","e","n">>)>>,
    \* line 96: '->er\b' -> '->error_count'
    <<L(<<"-",">","e","r">>) \o WB,
      R(<<"-",">","e","r","r","o","r","_","c","o","u","n","t">>)>>,
    \* line 97: '\.lx\b' -> '.lexer'
    <<L(<<".","l","x">>) \o WB,
      R(<<".","l","e","x","e","r">>)>>,
    \* line 98: '\.cr\b' -> '.current_token'
    <<L(<<".","c","r">>) \o WB,
      R(<<".","c","u","r","r","e","n","t","_","t","o","k","e","n">>)>>,
    \* line 99: '\.pk\b' -> '.peek_token'
    <<L(<<".","p","k">>) \o WB,
      R(<<".","p","e","e","k","_","t","o","k","e","n">>)>>,
    \* line 100: '\.er\b' -> '.error_count'
    <<L(<<".","e","r">>) \o WB,
      R(<<".","e","r","r","o","r","_","c","o","u","n","t">>)>>,
    \* line 107: '->bs\b' -> '->base_type'
    <<L(<<"-",">","b","s">>) \o WB,
      R(<<"-",">","b","a","s","e","_","t","y","p","e">>)>>,
    \* line 108: '->el\b(?=\s*[;,)=.])' -> '->element_type'
    <<L(<<"-",">","e","l">>) \o WB \o <<<<"pla", <<<<<<"star", Space>>>> \o <<<<"in", {";",",",")","=","."}>>>>>>>>>>,
      R(<<"-",">","e","l","e","m","e","n","t","_","t","y","p","e">>)>>,
    \* line 109: '->prt\b' -> '->parent_type'
    <<L(<<"-",">","p","r","t">>) \o WB,
      R(<<"-",">","p","a","r","e","n","t","_","t","y","p","e">>)>>,
    \* line 110: '->ix\b(?=\s*[;,)=.])' -> '->index_type'
    <<L(<<"-",">","i","x">>) \o WB \o <<<<"pla", <<<<<<"star", Space>>>> \o <<<<"in", {";",",",")","=","."}>>>>>>>>>>,
      R(<<"-",">","i","n","d","e","x","_","t","y","p","e">>)>>,
    \* line 111: '->cm\b' -> '->components'
    <<L(<<"-",">","c","m">>) \o WB,
      R(<<"-",">","c","o","m","p","o","n","e","n","t","s">>)>>,
    \* line 112: '->dc\b' -> '->discriminants'
    <<L(<<"-",">","d","c">>) \o WB,
      R(<<"-",">","d","i","s","c","r","i","m","i","n","a","n","t","s">>)>>,
    \* line 113: '->sz\b' -> '->size'
    <<L(<<"-",">","s","z">>) \o WB,
      R(<<"-",">","s","i","z","e">>)>>,
    \* line 114: '->al\b(?=\s*[;,)=])' -> '->alignment'
    <<L(<<"-",">","a","l">>) \o WB \o <<<<"pla", <<<<<<"star", Space>>>> \o <<<<"in", {";",",",")","="}>>>>>>>>>>,
      R(<<"-",">","a","l","i","g","n","m","e","n","t">>)>>,
    \* line 115: '->ev\b' -> '->enum_values'
    <<L(<<"-",">","e","v">>) \o WB,
      R(<<"-",">","e","n","u","m","_","v","a","l","u","e","s">>)>>,
    \* line 116: '->rc\b' -> '->reference_constraints'
    <<L(<<"-",">","r","c">>) \o WB,
      R(<<"-",">","r","e","f","e","r","e","n","c","e","_","c","o","n","s","t","r","a","i","n","t","s">>)>>,
    \* line 117: '->ad\b' -> '->address'
    <<L(<<"-",">","a","d">>) \o WB,
      R(<<"-",">","a","d","d","r","e","s","s">>)>>,
    \* line 118: '->pk\b(?=\s*[;,)])' -> '->is_packed'
    <<L(<<"-",">","p","k">>) \o WB \o <<<<"pla", <<<<<<"star", Space>>>> \o <<<<"in", {";",",",")"}>>>>>>>>>>,
      R(<<"-",">","i","s","_","p","a","c","k","e","d">>)>>,
    \* line 119: '->ops\b' -> '->operations'
    <<L(<<"-",">","o","p","s">>) \o WB,
      R(<<"-",">","o","p","e","r","a","t","i","o","n","s">>)>>,
    \* line 120: '->sm\b' -> '->small'
    <<L(<<"-",">","s","m">>) \o WB,
      R(<<"-",">","s","m","a","l","l">>)>>,
    \* line 121: '->lg\b' -> '->large'
    <<L(<<"-",">","l","g">>) \o WB,
      R(<<"-",">","l","a","r","g","e">>)>>,
    \* line 122: '->sup\b' -> '->support'
    <<L(<<"-",">","s","u","p">>) \o WB,
      R(<<"-",">","s","u","p","p","o","r","t">>)>>,
    \* line 123: '->ctrl\b' -> '->controlled'
    <<L(<<"-",">","c","t","r","l">>) \o WB,
      R(<<"-",">","c","o","n","t","r","o","l","l","e","d">>)>>,
    \* line 124: '->frz\b' -> '->frozen'
    <<L(<<"-",">","f","r","z">>) \o WB,
      R(<<"-",">","f","r","o","z","e","n">>)>>,
    \* line 125: '->fzn\b' -> '->frozen_node'
    <<L(<<"-",">","f","z","n">>) \o WB,
      R(<<"-",">","f","r","o","z","e","n","_","n","o","d","e">>)>>,
    \* line 126: '\.bs\b' -> '.base_type'
    <<L(<<".","b","s">>) \o WB,
      R(<<".","b","a","s","e","_","t","y","p","e">>)>>,
    \* line 127: '\.el\b(?=\s*[;,)=.])' -> '.element_type'
    <<L(<<".","e","l">>) \o WB \o <<<<"pla", <<<<<<"star", Space>>>> \o <<<<"in", {";",",",")","=","."}>>>>>>>>>>,
      R(<<".","e","l","e","m","e","n","t","_","t","y","p","e">>)>>,
    \* line 128: '\.prt\b' -> '.parent_type'
    <<L(<<".","p","r","t">>) \o WB,
      R(<<".","p","a","r","e","n","t","_","t","y","p","e">>)>>,
    \* line 129: '\.cm\b' -> '.components'
    <<L(<<".","c","m">>) \o WB,
      R(<<".","c","o","m","p","o","n","e","n","t","s">>)>>,
    \* line 130: '\.dc\b' -> '.discriminants'
    <<L(<<".","d","c">>) \o WB,
      R(<<".","d","i","s","c","r","i","m","i","n","a","n","t","s">>)>>,
    \* line 131: '\.sz\b' -> '.size'
    <<L(<<".","s","z">>) \o WB,
      R(<<".","s","i","z","e">>)>>,
    \* line 132: '\.al\b(?=\s*[;,)=])' -> '.alignment'
    <<L(<<".","a","l">>) \o WB \o <<<<"pla", <<<<<<"star", Space>>>> \o <<<<"in", {";",",",")","="}>>>>>>>>>>,
      R(<<".","a","l","i","g","n","m","e","n","t">>)>>,
    \* line 140: '->df\b' -> '->definition'
    <<L(<<"-",">","d","f">>) \o WB,
      R(<<"-",">","d","e","f","i","n","i","t","i","o","n">>)>>,
    \* line 141: '->nx\b' -> '->next'
    <<L(<<"-",">","n","x">>) \o WB,
      R(<<"-",">","n","e","x","t">>)>>,
    \* line 142: '->pv\b' -> '->previous'
    <<L(<<"-",">","p","v">>) \o WB,
      R(<<"-",">","p","r","e","v","i","o","u","s">>)>>,
    \* line 143: '->sc\b(?=\s*[;,)=])' -> '->scope'
    <<L(<<"-",">","s","c">>) \o WB \o <<<<"pla", <<<<<<"star", Space>>>> \o <<<<"in", {";",",",")","="}>>>>>>>>>>,
      R(<<"-",">","s","c","o","p","e">>)>>,
    \* line 144: '->ss\b(?=\s*[;,)=])' -> '->scope_stack'
    <<L(<<"-",">","s","s">>) \o WB \o <<<<"pla", <<<<<<"star", Space>>>> \o <<<<"in", {";",",",")","="}>>>>>>>>>>,
      R(<<"-",">","s","c","o","p","e","_","s","t","a","c","k">>)>>,
    \* line 145: '->vl\b' -> '->value'
    <<L(<<"-",">","v","l">>) \o WB,
      R(<<"-",">","v","a","l","u","e">>)>>,
    \* line 146: '->of\b(?=\s*[;,)=])' -> '->offset'
    <<L(<<"-",">","o","f">>) \o WB \o <<<<"pla", <<<<<<"star", Space>>>> \o <<<<"in", {";",",",")","="}>>>>>>>>>>,
      R(<<"-",">","o","f","f","s","e","t">>)>>,
    \* line 147: '->ol\b' -> '->overloads'
    <<L(<<"-",">","o","l">>) \o WB,
      R(<<"-",">","o","v","e","r","l","o","a","d","s">>)>>,
    \* line 148: '->us\b' -> '->uses'
    <<L(<<"-",">","u","s">>) \o WB,
      R(<<"-",">","u","s","e","s">>)>>,
    \* line 149: '->gt\b(?=\s*[;,)=.])' -> '->generic_type'
    <<L(<<"-",">","g","t">>) \o WB \o <<<<"pla", <<<<<<"star", Space>>>> \o <<<<"in", {";",",",")","=","."}>>>>>>>>>>,
      R(<<"-",">","g","e","n","e","r","i","c","_","t","y","p","e">>)>>,
    \* line 150: '->pr\b(?=\s*[;,)=.])' -> '->parent'
    <<L(<<"-",">","p","r">>) \o WB \o <<<<"pla", <<<<<<"star", Space>>>> \o <<<<"in", {";",",",")","=","."}>>>>>>>>>>,
      R(<<"-",">","p","a","r","e","n","t">>)>>,
    \* line 151: '->lv\b(?=\s*[;,)=])' -> '->level'
    <<L(<<"-",">","l","v">>) \o WB \o <<<<"pla", <<<<<<"star", Space>>>> \o <<<<"in", {";",",",")","="}>>>>>>>>>>,
      R(<<"-",">","l","e","v","e","l">>)>>,
    \* line 152: '->inl\b' -> '->is_inline'
    <<L(<<"-",">","i","n","l">>) \o WB,
      R(<<"-",">","i","s","_","i","n","l","i","n","e">>)>>,
    \* line 153: '->shrd\b' -> '->is_shared'
    <<L(<<"-",">","s","h","r","d">>) \o WB,
      R(<<"-",">","i","s","_","s","h","a","r","e","d">>)>>,
    \* line 154: '->ext\b(?=\s*[;,)=])' -> '->is_external'
    <<L(<<"-",">","e","x","t">>) \o WB \o <<<<"pla", <<<<<<"star", Space>>>> \o <<<<"in", {";",",",")","="}>>>>>>>>>>,
      R(<<"-",">","i","s","_","e","x","t","e","r","n","a","l">>)>>,
    \* line 155: '->vis\b' -> '->visibility'
    <<L(<<"-",">","v","i","s">>) \o WB,
      R(<<"-",">","v","i","s","i","b","i","l","i","t","y">>)>>,
    \* line 156: '->hm\b' -> '->hash_map'
    <<L(<<"-",">","h","m">>) \o WB,
      R(<<"-",">","h","a","s","h","_","m","a","p">>)>>,
    \* line 157: '->uid\b' -> '->unique_id'
    <<L(<<"-",">","u","i","d">>) \o WB,
      R(<<"-",">","u","n","i","q","u","e","_","i","d">>)>>,
    \* line 158: '\.df\b' -> '.definition'
    <<L(<<".","d","f">>) \o WB,
      R(<<".","d","e","f","i","n","i","t","i","o","n">>)>>,
    \* line 159: '\.nx\b' -> '.next'
    <<L(<<".","n","x">>) \o WB,
      R(<<".","n","e","x","t">>)>>,
    \* line 160: '\.sc\b(?=\s*[;,)=])' -> '.scope'
    <<L(<<".","s","c">>) \o WB \o <<<<"pla", <<<<<<"star", Space>>>> \o <<<<"in", {";",",",")","="}>>>>>>>>>>,
      R(<<".","s","c","o","p","e">>)>>,
    \* line 161: '\.ss\b(?=\s*[;,)=])' -> '.scope_stack'
    <<L(<<".","s","s">>) \o WB \o <<<<"pla", <<<<<<"star", Space>>>> \o <<<<"in", {";",",",")","="}>>>>>>>>>>,
      R(<<".","s","c","o","p","e","_","s","t","a","c","k">>)>>,
    \* line 169: '->eo\b' -> '->error_offset'
    <<L(<<"-",">","e","o">>) \o WB,
      R(<<"-",">","e","r","r","o","r","_","o","f","f","s","e","t">>)>>,
    \* line 170: '->lu\b(?=\s*[;,)=.])' -> '->label_uses'
    <<L(<<"-",">","l","u">>) \o WB \o <<<<"pla", <<<<<<"star", Space>>>> \o <<<<"in", {";",",",")","=","."}>>>>>>>>>>,
      R(<<"-",">","l","a","b","e","l","_","u","s","e","s">>)>>,
    \* line 171: '->eb\b' -> '->error_buffers'
    <<L(<<"-",">","e","b">>) \o WB,
      R(<<"-",">","e","r","r","o","r","_","b","u","f","f","e","r","s">>)>>,
    \* line 172: '->ed\b' -> '->error_depth'
    <<L(<<"-",">","e","d">>) \o WB,
      R(<<"-",">","e","r","r","o","r","_","d","e","p","t","h">>)>>,
    \* line 173: '->ce\b' -> '->current_exception'
    <<L(<<"-",">","c","e">>) \o WB,
      R(<<"-",">","c","u","r","r","e","n","t","_","e","x","c","e","p","t","i","o","n">>)>>,
    \* line 174: '->fn\b(?=\s*[;,)=])' -> '->file_number'
    <<L(<<"-",">","f","n">>) \o WB \o <<<<"pla", <<<<<<"star", Space>>>> \o <<<<"in", {";",",",")","="}>>>>>>>>>>,
      R(<<"-",">","f","i","l","e","_","n","u","m","b","e","r">>)>>,
    \* line 175: '->ib\b' -> '->import_buffer'
    <<L(<<"-",">","i","b">>) \o WB,
      R(<<"-",">","i","m","p","o","r","t","_","b","u","f","f","e","r">>)>>,
    \* line 176: '->sst\b' -> '->subscope_stack'
    <<L(<<"-",">","s","s","t">>) \o WB,
      R(<<"-",">","s","u","b","s","c","o","p","e","_","s","t","a","c","k">>)>>,
    \* line 177: '->ssd\b' -> '->subscope_depth'
    <<L(<<"-",">","s","s","d">>) \o WB,
      R(<<"-",">","s","u","b","s","c","o","p","e","_","d","e","p","t","h">>)>>,
    \* line 178: '->dps\b' -> '->deferred_package_specs'
    <<L(<<"-",">","d","p","s">>) \o WB,
      R(<<"-",">","d","e","f","e","r","r","e","d","_","p","a","c","k","a","g","e","_","s","p","e","c","s">>)>>,
    \* line 179: '->dpn\b' -> '->deferred_package_number'
    <<L(<<"-",">","d","p","n">>) \o WB,
      R(<<"-",">","d","e","f","e","r","r","e","d","_","p","a","c","k","a","g","e","_","n","u","m","b","e","r">>)>>,
    \* line 180: '->ex\b(?=\s*[;,)=.])' -> '->exports'
    <<L(<<"-",">","e","x">>) \o WB \o <<<<"pla", <<<<<<"star", Space>>>> \o <<<<"in", {";",",",")","=","."}>>>>>>>>>>,
      R(<<"-",">","e","x","p","o","r","t","s">>)>>,
    \* line 181: '->uv_vis\b' -> '->use_vector_visibility'
    <<L(<<"-",">","u","v","_","v","i","s">>) \o WB,
      R(<<"-",">","u","s","e","_","v","e","c","t","o","r","_","v","i","s","i","b","i","l","i","t","y">>)>>,
    \* line 182: '->eh\b' -> '->error_handlers'
    <<L(<<"-",">","e","h">>) \o WB,
      R(<<"-",">","e","r","r","o","r","_","h","a","n","d","l","e","r","s">>)>>,
    \* line 183: '->ap\b' -> '->active_packages'
    <<L(<<"-",">","a","p">>) \o WB,
      R(<<"-",">","a","c","t","i","v","e","_","p","a","c","k","a","g","e","s">>)>>,
    \* line 184: '->uid_ctr\b' -> '->unique_id_counter'
    <<L(<<"-",">","u","i","d","_","c","t","r">>) \o WB,
      R(<<"-",">","u","n","i","q","u","e","_","i","d","_","c","o","u","n","t","e","r">>)>>,
    \* line 185: '\.eo\b' -> '.error_offset'
    <<L(<<".","e","o">>) \o WB,
      R(<<".","e","r","r","o","r","_","o","f","f","s","e","t">>)>>,
    \* line 186: '\.fn\b(?=\s*[;,)=])' -> '.file_number'
    <<L(<<".","f","n">>) \o WB \o <<<<"pla", <<<<<<"star", Space>>>> \o <<<<"in", {";",",",")","="}>>>>>>>>>>,
      R(<<".","f","i","l","e","_","n","u","m","b","e","r">>)>>
  >>

\* fix_string_slice_v2.py, lines 16-35 (fix_string_slice_v2)
SSV2_Rules ==
  <<
    \* line 16: '\bs\.s\b' -> 's.string'
    <<WB \o L(<<"s",".","s">>) \o WB,
      R(<<"s",".","s","t","r","i","n","g">>)>>,
    \* line 17: '\bs\.n\b' -> 's.length'
    <<WB \o L(<<"s",".","n">>) \o WB,
      R(<<"s",".","l","e","n","g","t","h">>)>>,
    \* line 18: '\ba\.s\b' -> 'a.string'
    <<WB \o L(<<"a",".","s">>) \o WB,
      R(<<"a",".","s","t","r","i","n","g">>)>>,
    \* line 19: '\ba\.n\b' -> 'a.length'
    <<WB \o L(<<"a",".","n">>) \o WB,
      R(<<"a",".","l","e","n","g","t","h">>)>>,
    \* line 20: '\bb\.s\b' -> 'b.string'
    <<WB \o L(<<"b",".","s">>) \o WB,
      R(<<"b",".","s","t","r","i","n","g">>)>>,
    \* line 21: '\bb\.n\b' -> 'b.length'
    <<WB \o L(<<"b",".","n">>) \o WB,
      R(<<"b",".","l","e","n","g","t","h">>)>>,
    \* line 24: '\.nm\.s\b' -> '.nm.string'
    <<L(<<".","n","m",".","s">>) \o WB,
      R(<<".","n","m",".","s","t","r","i","n","g">>)>>,
    \* line 25: '\.nm\.n\b' -> '.nm.length'
    <<L(<<".","n","m",".","n">>) \o WB,
      R(<<".","n","m",".","l","e","n","g","t","h">>)>>,
    \* line 26: '->nm\.s\b' -> '->nm.string'
    <<L(<<"-",">","n","m",".","s">>) \o WB,
      R(<<"-",">","n","m",".","s","t","r","i","n","g">>)>>,
    \* line 27: '->nm\.n\b' -> '->nm.length'
    <<L(<<"-",">","n","m",".","n">>) \o WB,
      R(<<"-",">","n","m",".","l","e","n","g","t","h">>)>>,
    \* line 30: 'KW\[i\]\.k\.s' -> 'KW[i].k.string'
    <<L(<<"K","W","[","i","]",".","k",".","s">>),
      R(<<"K","W","[","i","]",".","k",".","s","t","r","i","n","g">>)>>,
    \* line 33: '\blb\.s\b' -> 'lb.string'
    <<WB \o L(<<"l","b",".","s">>) \o WB,
      R(<<"l","b",".","s","t","r","i","n","g">>)>>,
    \* line 34: '\bppkg\.s\b' -> 'ppkg.string'
    <<WB \o L(<<"p","p","k","g",".","s">>) \o WB,
      R(<<"p","p","k","g",".","s","t","r","i","n","g">>)>>,
    \* line 35: '\bppkg\.n\b' -> 'ppkg.length'
    <<WB \o L(<<"p","p","k","g",".","n">>) \o WB,
      R(<<"p","p","k","g",".","l","e","n","g","t","h">>)>>
  >>

\* fix_source_location.py, lines 13-27 (fix_source_location)
SL_Rules ==
  <<
    \* line 13: '\blc\.l\b' -> 'lc.line'
    <<WB \o L(<<"l","c",".","l">>) \o WB,
      R(<<"l","c",".","l","i","n","e">>)>>,
    \* line 14: '\blc\.c\b' -> 'lc.column'
    <<WB \o L(<<"l","c",".","c">>) \o WB,
      R(<<"l","c",".","c","o","l","u","m","n">>)>>,
    \* line 15: '\blc\.f\b' -> 'lc.filename'
    <<WB \o L(<<"l","c",".","f">>) \o WB,
      R(<<"l","c",".","f","i","l","e","n","a","m","e">>)>>,
    \* line 17: '\bl\.l\b' -> 'l.line'
    <<WB \o L(<<"l",".","l">>) \o WB,
      R(<<"l",".","l","i","n","e">>)>>,
    \* line 18: '\bl\.c\b' -> 'l.column'
    <<WB \o L(<<"l",".","c">>) \o WB,
      R(<<"l",".","c","o","l","u","m","n">>)>>,
    \* line 19: '\bl\.f\b' -> 'l.filename'
    <<WB \o L(<<"l",".","f">>) \o WB,
      R(<<"l",".","f","i","l","e","n","a","m","e">>)>>,
    \* line 21: '\bloc\.l\b' -> 'loc.line'
    <<WB \o L(<<"l","o","c",".","l">>) \o WB,
      R(<<"l","o","c",".","l","i","n","e">>)>>,
    \* line 22: '\bloc\.c\b' -> 'loc.column'
    <<WB \o L(<<"l","o","c",".","c">>) \o WB,
      R(<<"l","o","c",".","c","o","l","u","m","n">>)>>,
    \* line 23: '\bloc\.f\b' -> 'loc.filename'
    <<WB \o L(<<"l","o","c",".","f">>) \o WB,
      R(<<"l","o","c",".","f","i","l","e","n","a","m","e">>)>>,
    \* line 26: 'KW\[i\]\.keyword\.s' -> 'KW[i].keyword.string'
    <<L(<<"K","W","[","i","]",".","k","e","y","w","o","r","d",".","s">>),
      R(<<"K","W","[","i","]",".","k","e","y","w","o","r","d",".","s","t","r","i","n","g">>)>>,
    \* line 27: 'KW\[i\]\.t\b' -> 'KW[i].token_kind'
    <<L(<<"K","W","[","i","]",".","t">>) \o WB,
      R(<<"K","W","[","i","]",".","t","o","k","e","n","_","k","i","n","d">>)>>
  >>

\* fix_string_slice_fields.py, lines 19-29 (fix_string_slice_fields)
SSF_Rules ==
  <<
    \* line 19: '(\ba\.)n\b' -> '\1length'
    <<<<<<"open", 1>>>> \o WB \o L(<<"a",".">>) \o <<<<"close", 1>>>> \o L(<<"n">>) \o WB,
      G(1) \o R(<<"l","e","n","g","t","h">>)>>,
    \* line 20: '(\bb\.)n\b' -> '\1length'
    <<<<<<"open", 1>>>> \o WB \o L(<<"b",".">>) \o <<<<"close", 1>>>> \o L(<<"n">>) \o WB,
      G(1) \o R(<<"l","e","n","g","t","h">>)>>,
    \* line 21: '(\bs\.)n\b' -> '\1length'
    <<<<<<"open", 1>>>> \o WB \o L(<<"s",".">>) \o <<<<"close", 1>>>> \o L(<<"n">>) \o WB,
      G(1) \o R(<<"l","e","n","g","t","h">>)>>,
    \* line 24: '(\ba\.)s\b' -> '\1string'
    <<<<<<"open", 1>>>> \o WB \o L(<<"a",".">>) \o <<<<"close", 1>>>> \o L(<<"s">>) \o WB,
      G(1) \o R(<<"s","t","r","i","n","g">>)>>,
    \* line 25: '(\bb\.)s\b' -> '\1string'
    <<<<<<"open", 1>>>> \o WB \o L(<<"b",".">>) \o <<<<"close", 1>>>> \o L(<<"s">>) \o WB,
      G(1) \o R(<<"s","t","r","i","n","g">>)>>,
    \* line 26: '(\bs\.)s\b' -> '\1string'
    <<<<<<"open", 1>>>> \o WB \o L(<<"s",".">>) \o <<<<"close", 1>>>> \o L(<<"s">>) \o WB,
      G(1) \o R(<<"s","t","r","i","n","g">>)>>,
    \* line 29: '(KW\[i\]\.)k\b' -> '\1keyword'
    <<<<<<"open", 1>>>> \o L(<<"K","W","[","i","]",".">>) \o <<<<"close", 1>>>> \o L(<<"k">>) \o WB,
      G(1) \o R(<<"k","e","y","w","o","r","d">>)>>
  >>

\* fix_bigint_fields.py, lines 20-41 (fix_bigint_fields)
BI_Rules ==
  <<
    \* line 20: '(\w+)->d\b(?!\w)' -> '\1->digits'
    <<<<<<"open", 1>>>> \o <<<<"in", Word>>>> \o <<<<"star", Word>>>> \o <<<<"close", 1>>>> \o L(<<"-",">","d">>) \o WB \o <<<<"nla", <<<<<<"in", Word>>>>>>>>>>,
      G(1) \o R(<<"-",">","d","i","g","i","t","s">>)>>,
    \* line 23: '(\w+)->n\b(?!\w)' -> '\1->count'
    <<<<<<"open", 1>>>> \o <<<<"in", Word>>>> \o <<<<"star", Word>>>> \o <<<<"close", 1>>>> \o L(<<"-",">","n">>) \o WB \o <<<<"nla", <<<<<<"in", Word>>>>>>>>>>,
      G(1) \o R(<<"-",">","c","o","u","n","t">>)>>,
    \* line 26: '(\w+)->c\b(?!\w)' -> '\1->capacity'
    <<<<<<"open", 1>>>> \o <<<<"in", Word>>>> \o <<<<"star", Word>>>> \o <<<<"close", 1>>>> \o L(<<"-",">","c">>) \o WB \o <<<<"nla", <<<<<<"in", Word>>>>>>>>>>,
      G(1) \o R(<<"-",">","c","a","p","a","c","i","t","y">>)>>,
    \* line 29: '(\w+)->s\b(?!\w)' -> '\1->is_negative'
    <<<<<<"open", 1>>>> \o <<<<"in", Word>>>> \o <<<<"star", Word>>>> \o <<<<"close", 1>>>> \o L(<<"-",">","s">>) \o WB \o <<<<"nla", <<<<<<"in", Word>>>>>>>>>>,
      G(1) \o R(<<"-",">","i","s","_","n","e","g","a","t","i","v","e">>)>>,
    \* line 32: '(\w+)\.d\b(?!\w)' -> '\1.digits'
    <<<<<<"open", 1>>>> \o <<<<"in", Word>>>> \o <<<<"star", Word>>>> \o <<<<"close", 1>>>> \o L(<<".","d">>) \o WB \o <<<<"nla", <<<<<<"in", Word>>>>>>>>>>,
      G(1) \o R(<<".","d","i","g","i","t","s">>)>>,
    \* line 35: '(\w+)\.n\b(?!\w)' -> '\1.count'
    <<<<<<"open", 1>>>> \o <<<<"in", Word>>>> \o <<<<"star", Word>>>> \o <<<<"close", 1>>>> \o L(<<".","n">>) \o WB \o <<<<"nla", <<<<<<"in", Word>>>>>>>>>>,
      G(1) \o R(<<".","c","o","u","n","t">>)>>,
    \* line 38: '(\w+)\.c\b(?!\w)' -> '\1.capacity'
    <<<<<<"open", 1>>>> \o <<<<"in", Word>>>> \o <<<<"star", Word>>>> \o <<<<"close", 1>>>> \o L(<<".","c">>) \o WB \o <<<<"nla", <<<<<<"in", Word>>>>>>>>>>,
      G(1) \o R(<<".","c","a","p","a","c","i","t","y">>)>>,
    \* line 41: '(\w+)\.s\b(?!\w)' -> '\1.is_negative'
    <<<<<<"open", 1>>>> \o <<<<"in", Word>>>> \o <<<<"star", Word>>>> \o <<<<"close", 1>>>> \o L(<<".","s">>) \o WB \o <<<<"nla", <<<<<<"in", Word>>>>>>>>>>,
      G(1) \o R(<<".","i","s","_","n","e","g","a","t","i","v","e">>)>>
  >>

\* reformat_v2.py, lines 70-73 (replace_boolean_operators)
RV2_BOOL ==
  <<
    \* line 70: '&&' -> ' and '
    <<L(<<"&","&">>),
      R(<<" ","a","n","d"," ">>)>>,
    \* line 71: '\|\|' -> ' or '
    <<L(<<"|","|">>),
      R(<<" ","o","r"," ">>)>>,
    \* line 72: '!\s*([a-zA-Z_])' -> 'not \1'
    <<L(<<"!">>) \o <<<<"star", Space>>>> \o <<<<"open", 1>>>> \o <<<<"in", Lower \cup Upper \cup {"_"}>>>> \o <<<<"close", 1>>>>,
      R(<<"n","o","t"," ">>) \o G(1)>>,
    \* line 73: '!\s*\(' -> 'not ('
    <<L(<<"!">>) \o <<<<"star", Space>>>> \o L(<<"(">>),
      R(<<"n","o","t"," ","(">>)>>
  >>

\* reformat_v2.py, lines 14-33 (TYPE_NAMES)
TYPE_NAMES ==
  <<
    \* line 15: '\bU\*' -> 'Unsigned_Big_Integer *'
    <<WB \o L(<<"U","*">>),
      R(<<"U","n","s","i","g","n","e","d","_","B","i","g","_","I","n","t","e","g","e","r"," ","*">>)>>,
    \* line 16: '\bU\b(?!\))' -> 'Unsigned_Big_Integer'
    <<WB \o L(<<"U">>) \o WB \o <<<<"nla", <<L(<<")">>)>>>>>>,
      R(<<"U","n","s","i","g","n","e","d","_","B","i","g","_","I","n","t","e","g","e","r">>)>>,
    \* line 17: '\bR\*' -> 'Rational_Number *'
    <<WB \o L(<<"R","*">>),
      R(<<"R","a","t","i","o","n","a","l","_","N","u","m","b","e","r"," ","*">>)>>,
    \* line 18: '\bR\b(?!\))' -> 'Rational_Number'
    <<WB \o L(<<"R">>) \o WB \o <<<<"nla", <<L(<<")">>)>>>>>>,
      R(<<"R","a","t","i","o","n","a","l","_","N","u","m","b","e","r">>)>>,
    \* line 19: '\bS\b(?![a-z])' -> 'String_Slice'
    <<WB \o L(<<"S">>) \o WB \o <<<<"nla", <<<<<<"in", Lower>>>>>>>>>>,
      R(<<"S","t","r","i","n","g","_","S","l","i","c","e">>)>>,
    \* line 20: '\bL\b(?![a-z])' -> 'Source_Location'
    <<WB \o L(<<"L">>) \o WB \o <<<<"nla", <<<<<<"in", Lower>>>>>>>>>>,
      R(<<"S","o","u","r","c","e","_","L","o","c","a","t","i","o","n">>)>>,
    \* line 21: '\bTk\b' -> 'Token_Kind'
    <<WB \o L(<<"T","k">>) \o WB,
      R(<<"T","o","k","e","n","_","K","i","n","d">>)>>,
    \* line 22: '\bTn\b' -> 'Token'
    <<WB \o L(<<"T","n">>) \o WB,
      R(<<"T","o","k","e","n">>)>>,
    \* line 23: '\bLx\b' -> 'Lexer'
    <<WB \o L(<<"L","x">>) \o WB,
      R(<<"L","e","x","e","r">>)>>,
    \* line 24: '\bPs\b' -> 'Parser'
    <<WB \o L(<<"P","s">>) \o WB,
      R(<<"P","a","r","s","e","r">>)>>,
    \* line 25: '\bSy\b' -> 'Symbol'
    <<WB \o L(<<"S","y">>) \o WB,
      R(<<"S","y","m","b","o","l">>)>>,
    \* line 26: '\bTy\b' -> 'Type_Info'
    <<WB \o L(<<"T","y">>) \o WB,
      R(<<"T","y","p","e","_","I","n","f","o">>)>>,
    \* line 27: '\bNo\b' -> 'Syntax_Node'
    <<WB \o L(<<"N","o">>) \o WB,
      R(<<"S","y","n","t","a","x","_","N","o","d","e">>)>>,
    \* line 28: '\bSm\b' -> 'Symbol_Manager'
    <<WB \o L(<<"S","m">>) \o WB,
      R(<<"S","y","m","b","o","l","_","M","a","n","a","g","e","r">>)>>,
    \* line 29: '\bGn\b' -> 'Code_Generator'
    <<WB \o L(<<"G","n">>) \o WB,
      R(<<"C","o","d","e","_","G","e","n","e","r","a","t","o","r">>)>>,
    \* line 30: '\bVk\b' -> 'Value_Kind'
    <<WB \o L(<<"V","k">>) \o WB,
      R(<<"V","a","l","u","e","_","K","i","n","d">>)>>,
    \* line 31: '\bNV\b' -> 'Node_Vector'
    <<WB \o L(<<"N","V">>) \o WB,
      R(<<"N","o","d","e","_","V","e","c","t","o","r">>)>>,
    \* line 32: '\bSV\b' -> 'Symbol_Vector'
    <<WB \o L(<<"S","V">>) \o WB,
      R(<<"S","y","m","b","o","l","_","V","e","c","t","o","r">>)>>
  >>

\* reformat_v2.py, lines 36-58 (FUNCTION_NAMES)
FUNCTION_NAMES ==
  <<
    \* line 37: '\bun\(' -> 'unsigned_bigint_new('
    <<WB \o L(<<"u","n","(">>),
      R(<<"u","n","s","i","g","n","e","d","_","b","i","g","i","n","t","_","n","e","w","(">>)>>,
    \* line 38: '\buf\(' -> 'unsigned_bigint_free('
    <<WB \o L(<<"u","f","(">>),
      R(<<"u","n","s","i","g","n","e","d","_","b","i","g","i","n","t","_","f","r","e","e","(">>)>>,
    \* line 39: '\bug\(' -> 'unsigned_bigint_grow('
    <<WB \o L(<<"u","g","(">>),
      R(<<"u","n","s","i","g","n","e","d","_","b","i","g","i","n","t","_","g","r","o","w","(">>)>>,
    \* line 40: '\buca\(' -> 'unsigned_bigint_compare_abs('
    <<WB \o L(<<"u","c","a","(">>),
      R(<<"u","n","s","i","g","n","e","d","_","b","i","g","i","n","t","_","c","o","m","p","a","r","e","_","a","b","s","(">>)>>,
    \* line 41: '\badc\(' -> 'add_with_carry('
    <<WB \o L(<<"a","d","c","(">>),
      R(<<"a","d","d","_","w","i","t","h","_","c","a","r","r","y","(">>)>>,
    \* line 42: '\bsbb\(' -> 'subtract_with_borrow('
    <<WB \o L(<<"s","b","b","(">>),
      R(<<"s","u","b","t","r","a","c","t","_","w","i","t","h","_","b","o","r","r","o","w","(">>)>>,
    \* line 43: '\bubop\(' -> 'unsigned_bigint_binary_op('
    <<WB \o L(<<"u","b","o","p","(">>),
      R(<<"u","n","s","i","g","n","e","d","_","b","i","g","i","n","t","_","b","i","n","a","r","y","_","o","p","(">>)>>,
    \* line 44: '\buaa\(' -> 'unsigned_bigint_add_abs('
    <<WB \o L(<<"u","a","a","(">>),
      R(<<"u","n","s","i","g","n","e","d","_","b","i","g","i","n","t","_","a","d","d","_","a","b","s","(">>)>>,
    \* line 45: '\busa\(' -> 'unsigned_bigint_sub_abs('
    <<WB \o L(<<"u","s","a","(">>),
      R(<<"u","n","s","i","g","n","e","d","_","b","i","g","i","n","t","_","s","u","b","_","a","b","s","(">>)>>,
    \* line 46: '\bua\(' -> 'unsigned_bigint_add('
    <<WB \o L(<<"u","a","(">>),
      R(<<"u","n","s","i","g","n","e","d","_","b","i","g","i","n","t","_","a","d","d","(">>)>>,
    \* line 47: '\bus\(' -> 'unsigned_bigint_subtract('
    <<WB \o L(<<"u","s","(">>),
      R(<<"u","n","s","i","g","n","e","d","_","b","i","g","i","n","t","_","s","u","b","t","r","a","c","t","(">>)>>,
    \* line 48: '\bumb\(' -> 'unsigned_bigint_multiply_basic('
    <<WB \o L(<<"u","m","b","(">>),
      R(<<"u","n","s","i","g","n","e","d","_","b","i","g","i","n","t","_","m","u","l","t","i","p","l","y","_","b","a","s","i","c","(">>)>>,
    \* line 49: '\bumk\(' -> 'unsigned_bigint_multiply_karatsuba('
    <<WB \o L(<<"u","m","k","(">>),
      R(<<"u","n","s","i","g","n","e","d","_","b","i","g","i","n","t","_","m","u","l","t","i","p","l","y","_","k","a","r","a","t","s","u","b","a","(">>)>>,
    \* line 50: '\bum\(' -> 'unsigned_bigint_multiply('
    <<WB \o L(<<"u","m","(">>),
      R(<<"u","n","s","i","g","n","e","d","_","b","i","g","i","n","t","_","m","u","l","t","i","p","l","y","(">>)>>,
    \* line 51: '\bufd\(' -> 'unsigned_bigint_from_decimal('
    <<WB \o L(<<"u","f","d","(">>),
      R(<<"u","n","s","i","g","n","e","d","_","b","i","g","i","n","t","_","f","r","o","m","_","d","e","c","i","m","a","l","(">>)>>,
    \* line 52: '\bal\(' -> 'arena_allocate('
    <<WB \o L(<<"a","l","(">>),
      R(<<"a","r","e","n","a","_","a","l","l","o","c","a","t","e","(">>)>>,
    \* line 53: '\bsd\(' -> 'string_duplicate('
    <<WB \o L(<<"s","d","(">>),
      R(<<"s","t","r","i","n","g","_","d","u","p","l","i","c","a","t","e","(">>)>>,
    \* line 54: '\bsi\(' -> 'string_equal_ignore_case('
    <<WB \o L(<<"s","i","(">>),
      R(<<"s","t","r","i","n","g","_","e","q","u","a","l","_","i","g","n","o","r","e","_","c","a","s","e","(">>)>>,
    \* line 55: '\bLC\(' -> 'string_to_lowercase('
    <<WB \o L(<<"L","C","(">>),
      R(<<"s","t","r","i","n","g","_","t","o","_","l","o","w","e","r","c","a","s","e","(">>)>>,
    \* line 56: '\bsh\(' -> 'string_hash('
    <<WB \o L(<<"s","h","(">>),
      R(<<"s","t","r","i","n","g","_","h","a","s","h","(">>)>>,
    \* line 57: '\bdie\(' -> 'fatal_error('
    <<WB \o L(<<"d","i","e","(">>),
      R(<<"f","a","t","a","l","_","e","r","r","o","r","(">>)>>
  >>

\* reformat_v2.py, lines 60-66 (COMMON_VARS)
COMMON_VARS ==
  <<
    \* line 61: '\bIP\[' -> 'include_paths['
    <<WB \o L(<<"I","P","[">>),
      R(<<"i","n","c","l","u","d","e","_","p","a","t","h","s","[">>)>>,
    \* line 62: '\bIPN\b' -> 'include_path_count'
    <<WB \o L(<<"I","P","N">>) \o WB,
      R(<<"i","n","c","l","u","d","e","_","p","a","t","h","_","c","o","u","n","t">>)>>,
    \* line 63: '\bM\.' -> 'main_arena.'
    <<WB \o L(<<"M",".">>),
      R(<<"m","a","i","n","_","a","r","e","n","a",".">>)>>,
    \* line 64: '\bE\+\+' -> 'error_count++'
    <<WB \o L(<<"E","+","+">>),
      R(<<"e","r","r","o","r","_","c","o","u","n","t","+","+">>)>>,
    \* line 65: '\bE<' -> 'error_count<'
    <<WB \o L(<<"E","<">>),
      R(<<"e","r","r","o","r","_","c","o","u","n","t","<">>)>>
  >>

\* expand_all_identifiers.py, lines 194-207 (mappings)
mappings ==
  <<
    \* line 195: '\bpdc\(' -> 'parse_declarations('
    <<WB \o L(<<"p","d","c","(">>),
      R(<<"p","a","r","s","e","_","d","e","c","l","a","r","a","t","i","o","n","s","(">>)>>,
    \* line 196: '\bphd\(' -> 'parse_handlers('
    <<WB \o L(<<"p","h","d","(">>),
      R(<<"p","a","r","s","e","_","h","a","n","d","l","e","r","s","(">>)>>,
    \* line 197: '\bps\((?![a-z])' -> 'parse_subprogram_spec('
    <<WB \o L(<<"p","s","(">>) \o <<<<"nla", <<<<<<"in", Lower>>>>>>>>>>,
      R(<<"p","a","r","s","e","_","s","u","b","p","r","o","g","r","a","m","_","s","p","e","c","(">>)>>,
    \* line 198: '\bpgf\(' -> 'parse_generic_formal('
    <<WB \o L(<<"p","g","f","(">>),
      R(<<"p","a","r","s","e","_","g","e","n","e","r","i","c","_","f","o","r","m","a","l","(">>)>>,
    \* line 199: '\bprc\(' -> 'parse_record_component('
    <<WB \o L(<<"p","r","c","(">>),
      R(<<"p","a","r","s","e","_","r","e","c","o","r","d","_","c","o","m","p","o","n","e","n","t","(">>)>>,
    \* line 200: '\bsyh\(' -> 'symbol_hash('
    <<WB \o L(<<"s","y","h","(">>),
      R(<<"s","y","m","b","o","l","_","h","a","s","h","(">>)>>,
    \* line 201: '\bsyn\(' -> 'symbol_new('
    <<WB \o L(<<"s","y","n","(">>),
      R(<<"s","y","m","b","o","l","_","n","e","w","(">>)>>,
    \* line 202: '\bmt\(' -> 'make_token('
    <<WB \o L(<<"m","t","(">>),
      R(<<"m","a","k","e","_","t","o","k","e","n","(">>)>>,
    \* line 203: '\bav\(' -> 'advance_char('
    <<WB \o L(<<"a","v","(">>),
      R(<<"a","d","v","a","n","c","e","_","c","h","a","r","(">>)>>,
    \* line 204: '\bsw\(' -> 'skip_whitespace('
    <<WB \o L(<<"s","w","(">>),
      R(<<"s","k","i","p","_","w","h","i","t","e","s","p","a","c","e","(">>)>>,
    \* line 205: '\bkl\(' -> 'keyword_lookup('
    <<WB \o L(<<"k","l","(">>),
      R(<<"k","e","y","w","o","r","d","_","l","o","o","k","u","p","(">>)>>,
    \* line 206: '\bln\((?!ot)' -> 'lexer_new('
    <<WB \o L(<<"l","n","(">>) \o <<<<"nla", <<L(<<"o","t">>)>>>>>>,
      R(<<"l","e","x","e","r","_","n","e","w","(">>)>>
  >>

\* expand_identifiers.py, lines 11-16 (TYPE_MAPPINGS)
TYPE_MAPPINGS ==
  <<
    \* line 12: '\bFP\b' -> 'Fat_Pointer'
    <<WB \o L(<<"F","P">>) \o WB,
      R(<<"F","a","t","_","P","o","i","n","t","e","r">>)>>,
    \* line 13: '\bAB\b' -> 'Array_Bounds'
    <<WB \o L(<<"A","B">>) \o WB,
      R(<<"A","r","r","a","y","_","B","o","u","n","d","s">>)>>,
    \* line 14: '\bTQ\b' -> 'Thread_Queue'
    <<WB \o L(<<"T","Q">>) \o WB,
      R(<<"T","h","r","e","a","d","_","Q","u","e","u","e">>)>>,
    \* line 15: '\bTA\b' -> 'Thread_Args'
    <<WB \o L(<<"T","A">>) \o WB,
      R(<<"T","h","r","e","a","d","_","A","r","g","s">>)>>
  >>

\* expand_identifiers.py, lines 19-23 (MACRO_MAPPINGS)
MACRO_MAPPINGS ==
  <<
    \* line 20: '\bUZ\(' -> 'UNSIGNED_BIGINT_NORMALIZE('
    <<WB \o L(<<"U","Z","(">>),
      R(<<"U","N","S","I","G","N","E","D","_","B","I","G","I","N","T","_","N","O","R","M","A","L","I","Z","E","(">>)>>,
    \* line 21: '\bZ\(' -> 'STRING_LITERAL('
    <<WB \o L(<<"Z","(">>),
      R(<<"S","T","R","I","N","G","_","L","I","T","E","R","A","L","(">>)>>,
    \* line 22: '\bN\b(?=\s*\))' -> 'NULL_STRING_SLICE'
    <<WB \o L(<<"N">>) \o WB \o <<<<"pla", <<<<<<"star", Space>>>> \o L(<<")">>)>>>>>>,
      R(<<"N","U","L","L","_","S","T","R","I","N","G","_","S","L","I","C","E">>)>>
  >>

\* expand_identifiers.py, lines 27-134 (FUNCTION_MAPPINGS)
FUNCTION_MAPPINGS ==
  <<
    \* line 28: '\blnx\(' -> 'lexer_next_token('
    <<WB \o L(<<"l","n","x","(">>),
      R(<<"l","e","x","e","r","_","n","e","x","t","_","t","o","k","e","n","(">>)>>,
    \* line 29: '\bsn\(' -> 'scan_number_literal('
    <<WB \o L(<<"s","n","(">>),
      R(<<"s","c","a","n","_","n","u","m","b","e","r","_","l","i","t","e","r","a","l","(">>)>>,
    \* line 30: '\bsc\(' -> 'scan_character_literal('
    <<WB \o L(<<"s","c","(">>),
      R(<<"s","c","a","n","_","c","h","a","r","a","c","t","e","r","_","l","i","t","e","r","a","l","(">>)>>,
    \* line 31: '\bss\(' -> 'scan_string_literal('
    <<WB \o L(<<"s","s","(">>),
      R(<<"s","c","a","n","_","s","t","r","i","n","g","_","l","i","t","e","r","a","l","(">>)>>,
    \* line 32: '\bsi_\(' -> 'scan_identifier('
    <<WB \o L(<<"s","i","_","(">>),
      R(<<"s","c","a","n","_","i","d","e","n","t","i","f","i","e","r","(">>)>>,
    \* line 35: '\bnd\(' -> 'node_new('
    <<WB \o L(<<"n","d","(">>),
      R(<<"n","o","d","e","_","n","e","w","(">>)>>,
    \* line 36: '\brc\(' -> 'reference_counter_new('
    <<WB \o L(<<"r","c","(">>),
      R(<<"r","e","f","e","r","e","n","c","e","_","c","o","u","n","t","e","r","_","n","e","w","(">>)>>,
    \* line 37: '\blu\(' -> 'label_use_new('
    <<WB \o L(<<"l","u","(">>),
      R(<<"l","a","b","e","l","_","u","s","e","_","n","e","w","(">>)>>,
    \* line 38: '\bgt\(' -> 'generic_type_new('
    <<WB \o L(<<"g","t","(">>),
      R(<<"g","e","n","e","r","i","c","_","t","y","p","e","_","n","e","w","(">>)>>,
    \* line 41: '\bnv\(' -> 'node_vector_append('
    <<WB \o L(<<"n","v","(">>),
      R(<<"n","o","d","e","_","v","e","c","t","o","r","_","a","p","p","e","n","d","(">>)>>,
    \* line 42: '\bsv\(' -> 'symbol_vector_append('
    <<WB \o L(<<"s","v","(">>),
      R(<<"s","y","m","b","o","l","_","v","e","c","t","o","r","_","a","p","p","e","n","d","(">>)>>,
    \* line 43: '\blv\(' -> 'label_vector_append('
    <<WB \o L(<<"l","v","(">>),
      R(<<"l","a","b","e","l","_","v","e","c","t","o","r","_","a","p","p","e","n","d","(">>)>>,
    \* line 44: '\bgv\(' -> 'generic_vector_append('
    <<WB \o L(<<"g","v","(">>),
      R(<<"g","e","n","e","r","i","c","_","v","e","c","t","o","r","_","a","p","p","e","n","d","(">>)>>,
    \* line 45: '\blev\(' -> 'label_entry_vector_append('
    <<WB \o L(<<"l","e","v","(">>),
      R(<<"l","a","b","e","l","_","e","n","t","r","y","_","v","e","c","t","o","r","_","a","p","p","e","n","d","(">>)>>,
    \* line 46: '\bfev\(' -> 'file_vector_append('
    <<WB \o L(<<"f","e","v","(">>),
      R(<<"f","i","l","e","_","v","e","c","t","o","r","_","a","p","p","e","n","d","(">>)>>,
    \* line 47: '\bslv\(' -> 'string_list_vector_append('
    <<WB \o L(<<"s","l","v","(">>),
      R(<<"s","t","r","i","n","g","_","l","i","s","t","_","v","e","c","t","o","r","_","a","p","p","e","n","d","(">>)>>,
    \* line 50: '\bpn\(' -> 'parser_next('
    <<WB \o L(<<"p","n","(">>),
      R(<<"p","a","r","s","e","r","_","n","e","x","t","(">>)>>,
    \* line 51: '\bpa\(' -> 'parser_at('
    <<WB \o L(<<"p","a","(">>),
      R(<<"p","a","r","s","e","r","_","a","t","(">>)>>,
    \* line 52: '\bpm\(' -> 'parser_match('
    <<WB \o L(<<"p","m","(">>),
      R(<<"p","a","r","s","e","r","_","m","a","t","c","h","(">>)>>,
    \* line 53: '\bpe\(' -> 'parser_expect('
    <<WB \o L(<<"p","e","(">>),
      R(<<"p","a","r","s","e","r","_","e","x","p","e","c","t","(">>)>>,
    \* line 54: '\bpl\(' -> 'parser_location('
    <<WB \o L(<<"p","l","(">>),
      R(<<"p","a","r","s","e","r","_","l","o","c","a","t","i","o","n","(">>)>>,
    \* line 55: '\bpi\(' -> 'parser_identifier('
    <<WB \o L(<<"p","i","(">>),
      R(<<"p","a","r","s","e","r","_","i","d","e","n","t","i","f","i","e","r","(">>)>>,
    \* line 56: '\bpat\(' -> 'parser_attribute('
    <<WB \o L(<<"p","a","t","(">>),
      R(<<"p","a","r","s","e","r","_","a","t","t","r","i","b","u","t","e","(">>)>>,
    \* line 57: '\bpex\(' -> 'parse_expression('
    <<WB \o L(<<"p","e","x","(">>),
      R(<<"p","a","r","s","e","_","e","x","p","r","e","s","s","i","o","n","(">>)>>,
    \* line 58: '\bpnm\(' -> 'parse_name('
    <<WB \o L(<<"p","n","m","(">>),
      R(<<"p","a","r","s","e","_","n","a","m","e","(">>)>>,
    \* line 59: '\bppr\(' -> 'parse_primary('
    <<WB \o L(<<"p","p","r","(">>),
      R(<<"p","a","r","s","e","_","p","r","i","m","a","r","y","(">>)>>,
    \* line 60: '\bprn\(' -> 'parse_range('
    <<WB \o L(<<"p","r","n","(">>),
      R(<<"p","a","r","s","e","_","r","a","n","g","e","(">>)>>,
    \* line 61: '\bpst\(' -> 'parse_statement('
    <<WB \o L(<<"p","s","t","(">>),
      R(<<"p","a","r","s","e","_","s","t","a","t","e","m","e","n","t","(">>)>>,
    \* line 62: '\bpbr\(' -> 'parse_binary('
    <<WB \o L(<<"p","b","r","(">>),
      R(<<"p","a","r","s","e","_","b","i","n","a","r","y","(">>)>>,
    \* line 65: '\btcc\(' -> 'type_canonical_concrete('
    <<WB \o L(<<"t","c","c","(">>),
      R(<<"t","y","p","e","_","c","a","n","o","n","i","c","a","l","_","c","o","n","c","r","e","t","e","(">>)>>,
    \* line 66: '\brst\(' -> 'resolve_subtype('
    <<WB \o L(<<"r","s","t","(">>),
      R(<<"r","e","s","o","l","v","e","_","s","u","b","t","y","p","e","(">>)>>,
    \* line 67: '\brng_sz\(' -> 'range_size('
    <<WB \o L(<<"r","n","g","_","s","z","(">>),
      R(<<"r","a","n","g","e","_","s","i","z","e","(">>)>>,
    \* line 68: '\btco\(' -> 'type_covers('
    <<WB \o L(<<"t","c","o","(">>),
      R(<<"t","y","p","e","_","c","o","v","e","r","s","(">>)>>,
    \* line 69: '\bis_unc_arr\(' -> 'is_unconstrained_array('
    <<WB \o L(<<"i","s","_","u","n","c","_","a","r","r","(">>),
      R(<<"i","s","_","u","n","c","o","n","s","t","r","a","i","n","e","d","_","a","r","r","a","y","(">>)>>,
    \* line 70: '\brepr_cat\(' -> 'representation_category('
    <<WB \o L(<<"r","e","p","r","_","c","a","t","(">>),
      R(<<"r","e","p","r","e","s","e","n","t","a","t","i","o","n","_","c","a","t","e","g","o","r","y","(">>)>>,
    \* line 73: '\bsyf\(' -> 'symbol_find('
    <<WB \o L(<<"s","y","f","(">>),
      R(<<"s","y","m","b","o","l","_","f","i","n","d","(">>)>>,
    \* line 74: '\bsyfa\(' -> 'symbol_find_with_arity('
    <<WB \o L(<<"s","y","f","a","(">>),
      R(<<"s","y","m","b","o","l","_","f","i","n","d","_","w","i","t","h","_","a","r","i","t","y","(">>)>>,
    \* line 75: '\bsyi\(' -> 'symbol_insert('
    <<WB \o L(<<"s","y","i","(">>),
      R(<<"s","y","m","b","o","l","_","i","n","s","e","r","t","(">>)>>,
    \* line 76: '\bsyd\(' -> 'symbol_define('
    <<WB \o L(<<"s","y","d","(">>),
      R(<<"s","y","m","b","o","l","_","d","e","f","i","n","e","(">>)>>,
    \* line 77: '\bsya\(' -> 'symbol_add_overload('
    <<WB \o L(<<"s","y","a","(">>),
      R(<<"s","y","m","b","o","l","_","a","d","d","_","o","v","e","r","l","o","a","d","(">>)>>,
    \* line 80: '\bnt\(' -> 'new_temporary_register('
    <<WB \o L(<<"n","t","(">>),
      R(<<"n","e","w","_","t","e","m","p","o","r","a","r","y","_","r","e","g","i","s","t","e","r","(">>)>>,
    \* line 81: '\bnl\(' -> 'new_label_block('
    <<WB \o L(<<"n","l","(">>),
      R(<<"n","e","w","_","l","a","b","e","l","_","b","l","o","c","k","(">>)>>,
    \* line 82: '\bbr\(' -> 'emit_branch('
    <<WB \o L(<<"b","r","(">>),
      R(<<"e","m","i","t","_","b","r","a","n","c","h","(">>)>>,
    \* line 83: '\bcbr\(' -> 'emit_conditional_branch('
    <<WB \o L(<<"c","b","r","(">>),
      R(<<"e","m","i","t","_","c","o","n","d","i","t","i","o","n","a","l","_","b","r","a","n","c","h","(">>)>>,
    \* line 86: '\bgen_index_check\(' -> 'generate_index_constraint_check('
    <<WB \o L(<<"g","e","n","_","i","n","d","e","x","_","c","h","e","c","k","(">>),
      R(<<"g","e","n","e","r","a","t","e","_","i","n","d","e","x","_","c","o","n","s","t","r","a","i","n","t","_","c","h","e","c","k","(">>)>>,
    \* line 87: '\bgen_float_chk\(' -> 'generate_float_range_check('
    <<WB \o L(<<"g","e","n","_","f","l","o","a","t","_","c","h","k","(">>),
      R(<<"g","e","n","e","r","a","t","e","_","f","l","o","a","t","_","r","a","n","g","e","_","c","h","e","c","k","(">>)>>,
    \* line 88: '\bgen_array_bounds_chk\(' -> 'generate_array_bounds_check('
    <<WB \o L(<<"g","e","n","_","a","r","r","a","y","_","b","o","u","n","d","s","_","c","h","k","(">>),
      R(<<"g","e","n","e","r","a","t","e","_","a","r","r","a","y","_","b","o","u","n","d","s","_","c","h","e","c","k","(">>)>>,
    \* line 89: '\bgen_discrete_chk\(' -> 'generate_discrete_range_check('
    <<WB \o L(<<"g","e","n","_","d","i","s","c","r","e","t","e","_","c","h","k","(">>),
      R(<<"g","e","n","e","r","a","t","e","_","d","i","s","c","r","e","t","e","_","r","a","n","g","e","_","c","h","e","c","k","(">>)>>,
    \* line 92: '\bnaag\(' -> 'normalize_array_aggregate('
    <<WB \o L(<<"n","a","a","g","(">>),
      R(<<"n","o","r","m","a","l","i","z","e","_","a","r","r","a","y","_","a","g","g","r","e","g","a","t","e","(">>)>>,
    \* line 93: '\bnrag\(' -> 'normalize_record_aggregate('
    <<WB \o L(<<"n","r","a","g","(">>),
      R(<<"n","o","r","m","a","l","i","z","e","_","r","e","c","o","r","d","_","a","g","g","r","e","g","a","t","e","(">>)>>,
    \* line 94: '\brex\(' -> 'resolve_expression('
    <<WB \o L(<<"r","e","x","(">>),
      R(<<"r","e","s","o","l","v","e","_","e","x","p","r","e","s","s","i","o","n","(">>)>>,
    \* line 95: '\brss\(' -> 'resolve_statement_sequence('
    <<WB \o L(<<"r","s","s","(">>),
      R(<<"r","e","s","o","l","v","e","_","s","t","a","t","e","m","e","n","t","_","s","e","q","u","e","n","c","e","(">>)>>,
    \* line 96: '\brdl\(' -> 'resolve_declaration('
    <<WB \o L(<<"r","d","l","(">>),
      R(<<"r","e","s","o","l","v","e","_","d","e","c","l","a","r","a","t","i","o","n","(">>)>>,
    \* line 99: '\bgdl\(' -> 'generate_declaration('
    <<WB \o L(<<"g","d","l","(">>),
      R(<<"g","e","n","e","r","a","t","e","_","d","e","c","l","a","r","a","t","i","o","n","(">>)>>,
    \* line 100: '\bgss\(' -> 'generate_statement_sequence('
    <<WB \o L(<<"g","s","s","(">>),
      R(<<"g","e","n","e","r","a","t","e","_","s","t","a","t","e","m","e","n","t","_","s","e","q","u","e","n","c","e","(">>)>>,
    \* line 101: '\bgbf\(' -> 'generate_block_frame('
    <<WB \o L(<<"g","b","f","(">>),
      R(<<"g","e","n","e","r","a","t","e","_","b","l","o","c","k","_","f","r","a","m","e","(">>)>>,
    \* line 102: '\bgex\(' -> 'generate_expression('
    <<WB \o L(<<"g","e","x","(">>),
      R(<<"g","e","n","e","r","a","t","e","_","e","x","p","r","e","s","s","i","o","n","(">>)>>,
    \* line 103: '\bgag\(' -> 'generate_aggregate('
    <<WB \o L(<<"g","a","g","(">>),
      R(<<"g","e","n","e","r","a","t","e","_","a","g","g","r","e","g","a","t","e","(">>)>>,
    \* line 104: '\bgfp\(' -> 'generate_fat_pointer('
    <<WB \o L(<<"g","f","p","(">>),
      R(<<"g","e","n","e","r","a","t","e","_","f","a","t","_","p","o","i","n","t","e","r","(">>)>>,
    \* line 105: '\bgfpd\(' -> 'get_fat_pointer_data('
    <<WB \o L(<<"g","f","p","d","(">>),
      R(<<"g","e","t","_","f","a","t","_","p","o","i","n","t","e","r","_","d","a","t","a","(">>)>>,
    \* line 106: '\bgfpb\(' -> 'get_fat_pointer_bounds('
    <<WB \o L(<<"g","f","p","b","(">>),
      R(<<"g","e","t","_","f","a","t","_","p","o","i","n","t","e","r","_","b","o","u","n","d","s","(">>)>>,
    \* line 109: '\besn\(' -> 'encode_symbol_name('
    <<WB \o L(<<"e","s","n","(">>),
      R(<<"e","n","c","o","d","e","_","s","y","m","b","o","l","_","n","a","m","e","(">>)>>,
    \* line 110: '\bhnf\(' -> 'has_nested_function('
    <<WB \o L(<<"h","n","f","(">>),
      R(<<"h","a","s","_","n","e","s","t","e","d","_","f","u","n","c","t","i","o","n","(">>)>>,
    \* line 111: '\bhnfs\(' -> 'has_nested_function_in_stmts('
    <<WB \o L(<<"h","n","f","s","(">>),
      R(<<"h","a","s","_","n","e","s","t","e","d","_","f","u","n","c","t","i","o","n","_","i","n","_","s","t","m","t","s","(">>)>>,
    \* line 112: '\bsbody\(' -> 'symbol_body('
    <<WB \o L(<<"s","b","o","d","y","(">>),
      R(<<"s","y","m","b","o","l","_","b","o","d","y","(">>)>>,
    \* line 113: '\bsspec\(' -> 'symbol_spec('
    <<WB \o L(<<"s","s","p","e","c","(">>),
      R(<<"s","y","m","b","o","l","_","s","p","e","c","(">>)>>,
    \* line 114: '\bgattr\(' -> 'get_attribute_name('
    <<WB \o L(<<"g","a","t","t","r","(">>),
      R(<<"g","e","t","_","a","t","t","r","i","b","u","t","e","_","n","a","m","e","(">>)>>,
    \* line 115: '\bflbl\(' -> 'find_label('
    <<WB \o L(<<"f","l","b","l","(">>),
      R(<<"f","i","n","d","_","l","a","b","e","l","(">>)>>,
    \* line 116: '\beex\(' -> 'emit_exception('
    <<WB \o L(<<"e","e","x","(">>),
      R(<<"e","m","i","t","_","e","x","c","e","p","t","i","o","n","(">>)>>,
    \* line 117: '\belbl\(' -> 'emit_label_definition('
    <<WB \o L(<<"e","l","b","l","(">>),
      R(<<"e","m","i","t","_","l","a","b","e","l","_","d","e","f","i","n","i","t","i","o","n","(">>)>>,
    \* line 118: '\badcl\(' -> 'add_declaration('
    <<WB \o L(<<"a","d","c","l","(">>),
      R(<<"a","d","d","_","d","e","c","l","a","r","a","t","i","o","n","(">>)>>,
    \* line 119: '\bvt\(' -> 'value_llvm_type_string('
    <<WB \o L(<<"v","t","(">>),
      R(<<"v","a","l","u","e","_","l","l","v","m","_","t","y","p","e","_","s","t","r","i","n","g","(">>)>>,
    \* line 120: '\bact\(' -> 'ada_to_c_type_string('
    <<WB \o L(<<"a","c","t","(">>),
      R(<<"a","d","a","_","t","o","_","c","_","t","y","p","e","_","s","t","r","i","n","g","(">>)>>,
    \* line 121: '\btk2v\(' -> 'token_kind_to_value_kind('
    <<WB \o L(<<"t","k","2","v","(">>),
      R(<<"t","o","k","e","n","_","k","i","n","d","_","t","o","_","v","a","l","u","e","_","k","i","n","d","(">>)>>,
    \* line 122: '\bth\(' -> 'type_hash('
    <<WB \o L(<<"t","h","(">>),
      R(<<"t","y","p","e","_","h","a","s","h","(">>)>>,
    \* line 123: '\bglbl_bb\(' -> 'get_or_create_label_basic_block('
    <<WB \o L(<<"g","l","b","l","_","b","b","(">>),
      R(<<"g","e","t","_","o","r","_","c","r","e","a","t","e","_","l","a","b","e","l","_","b","a","s","i","c","_","b","l","o","c","k","(">>)>>,
    \* line 126: '\bvcast\(' -> 'value_cast('
    <<WB \o L(<<"v","c","a","s","t","(">>),
      R(<<"v","a","l","u","e","_","c","a","s","t","(">>)>>,
    \* line 127: '\bvcmp\(' -> 'value_compare('
    <<WB \o L(<<"v","c","m","p","(">>),
      R(<<"v","a","l","u","e","_","c","o","m","p","a","r","e","(">>)>>,
    \* line 128: '\bvcmpi\(' -> 'value_compare_integer('
    <<WB \o L(<<"v","c","m","p","i","(">>),
      R(<<"v","a","l","u","e","_","c","o","m","p","a","r","e","_","i","n","t","e","g","e","r","(">>)>>,
    \* line 129: '\bvcmpf\(' -> 'value_compare_float('
    <<WB \o L(<<"v","c","m","p","f","(">>),
      R(<<"v","a","l","u","e","_","c","o","m","p","a","r","e","_","f","l","o","a","t","(">>)>>,
    \* line 130: '\bvbool\(' -> 'value_to_boolean('
    <<WB \o L(<<"v","b","o","o","l","(">>),
      R(<<"v","a","l","u","e","_","t","o","_","b","o","o","l","e","a","n","(">>)>>,
    \* line 131: '\bvpow\(' -> 'value_power('
    <<WB \o L(<<"v","p","o","w","(">>),
      R(<<"v","a","l","u","e","_","p","o","w","e","r","(">>)>>,
    \* line 132: '\bvpowi\(' -> 'value_power_integer('
    <<WB \o L(<<"v","p","o","w","i","(">>),
      R(<<"v","a","l","u","e","_","p","o","w","e","r","_","i","n","t","e","g","e","r","(">>)>>,
    \* line 133: '\bvpows\(' -> 'value_power_float('
    <<WB \o L(<<"v","p","o","w","s","(">>),
      R(<<"v","a","l","u","e","_","p","o","w","e","r","_","f","l","o","a","t","(">>)>>
  >>

\* expand_identifiers.py, lines 137-157 (ENUM_MAPPINGS)
ENUM_MAPPINGS ==
  <<
    \* line 138: '\bVK_I\b' -> 'VALUE_KIND_INTEGER'
    <<WB \o L(<<"V","K","_","I">>) \o WB,
      R(<<"V","A","L","U","E","_","K","I","N","D","_","I","N","T","E","G","E","R">>)>>,
    \* line 139: '\bVK_F\b' -> 'VALUE_KIND_FLOAT'
    <<WB \o L(<<"V","K","_","F">>) \o WB,
      R(<<"V","A","L","U","E","_","K","I","N","D","_","F","L","O","A","T">>)>>,
    \* line 140: '\bVK_P\b' -> 'VALUE_KIND_POINTER'
    <<WB \o L(<<"V","K","_","P">>) \o WB,
      R(<<"V","A","L","U","E","_","K","I","N","D","_","P","O","I","N","T","E","R">>)>>,
    \* line 141: '\bTY_B\b' -> 'TYPE_BOOLEAN'
    <<WB \o L(<<"T","Y","_","B">>) \o WB,
      R(<<"T","Y","P","E","_","B","O","O","L","E","A","N">>)>>,
    \* line 142: '\bTY_C\b' -> 'TYPE_CHARACTER'
    <<WB \o L(<<"T","Y","_","C">>) \o WB,
      R(<<"T","Y","P","E","_","C","H","A","R","A","C","T","E","R">>)>>,
    \* line 143: '\bTY_I\b' -> 'TYPE_INTEGER'
    <<WB \o L(<<"T","Y","_","I">>) \o WB,
      R(<<"T","Y","P","E","_","I","N","T","E","G","E","R">>)>>,
    \* line 144: '\bTY_UI\b' -> 'TYPE_UNSIGNED_INTEGER'
    <<WB \o L(<<"T","Y","_","U","I">>) \o WB,
      R(<<"T","Y","P","E","_","U","N","S","I","G","N","E","D","_","I","N","T","E","G","E","R">>)>>,
    \* line 145: '\bTY_E\b' -> 'TYPE_ENUMERATION'
    <<WB \o L(<<"T","Y","_","E">>) \o WB,
      R(<<"T","Y","P","E","_","E","N","U","M","E","R","A","T","I","O","N">>)>>,
    \* line 146: '\bTY_D\b' -> 'TYPE_DERIVED'
    <<WB \o L(<<"T","Y","_","D">>) \o WB,
      R(<<"T","Y","P","E","_","D","E","R","I","V","E","D">>)>>,
    \* line 147: '\bTY_F\b' -> 'TYPE_FLOAT'
    <<WB \o L(<<"T","Y","_","F">>) \o WB,
      R(<<"T","Y","P","E","_","F","L","O","A","T">>)>>,
    \* line 148: '\bTY_UF\b' -> 'TYPE_UNIVERSAL_FLOAT'
    <<WB \o L(<<"T","Y","_","U","F">>) \o WB,
      R(<<"T","Y","P","E","_","U","N","I","V","E","R","S","A","L","_","F","L","O","A","T">>)>>,
    \* line 149: '\bTY_FX\b' -> 'TYPE_FIXED_POINT'
    <<WB \o L(<<"T","Y","_","F","X">>) \o WB,
      R(<<"T","Y","P","E","_","F","I","X","E","D","_","P","O","I","N","T">>)>>,
    \* line 150: '\bTY_AC\b' -> 'TYPE_ACCESS'
    <<WB \o L(<<"T","Y","_","A","C">>) \o WB,
      R(<<"T","Y","P","E","_","A","C","C","E","S","S">>)>>,
    \* line 151: '\bTY_FT\b' -> 'TYPE_FAT_POINTER'
    <<WB \o L(<<"T","Y","_","F","T">>) \o WB,
      R(<<"T","Y","P","E","_","F","A","T","_","P","O","I","N","T","E","R">>)>>,
    \* line 152: '\bTY_S\b' -> 'TYPE_STRING'
    <<WB \o L(<<"T","Y","_","S">>) \o WB,
      R(<<"T","Y","P","E","_","S","T","R","I","N","G">>)>>,
    \* line 153: '\bTY_A\b' -> 'TYPE_ARRAY'
    <<WB \o L(<<"T","Y","_","A">>) \o WB,
      R(<<"T","Y","P","E","_","A","R","R","A","Y">>)>>,
    \* line 154: '\bTY_R\b' -> 'TYPE_RECORD'
    <<WB \o L(<<"T","Y","_","R">>) \o WB,
      R(<<"T","Y","P","E","_","R","E","C","O","R","D">>)>>,
    \* line 155: '\bRC_FLOAT\b' -> 'REPR_CAT_FLOAT'
    <<WB \o L(<<"R","C","_","F","L","O","A","T">>) \o WB,
      R(<<"R","E","P","R","_","C","A","T","_","F","L","O","A","T">>)>>,
    \* line 156: '\bRC_PTR\b' -> 'REPR_CAT_POINTER'
    <<WB \o L(<<"R","C","_","P","T","R">>) \o WB,
      R(<<"R","E","P","R","_","C","A","T","_","P","O","I","N","T","E","R">>)>>
  >>

(***************************************************************************)
(* Files.  The scripts open their files in text mode: f.read() and         *)
(* f.readlines() hand out the text with every line ending \r\n or \r       *)
(* turned into \n (universal newlines); f.write() puts the text out as it  *)
(* is (the line separator of the platform is \n).                          *)
(***************************************************************************)
f_read(bytes) ==
  Sub(L(<<"\r">>), R(<<"\n">>), Sub(L(<<"\r", "\n">>), R(<<"\n">>), bytes))


(***************************************************************************)
(* The passes.  Each is the function of its script that maps the text of   *)
(* the C source to the rewritten text.                                     *)
(***************************************************************************)
\* The rules of fix_field_accesses applied last to first: of two rules for
\* one access the later one comes first.
fix_field_accesses_last_first(code) ==
  ApplyRules([k \in 1..Len(FFA_Rules) |-> FFA_Rules[Len(FFA_Rules) + 1 - k]], code)

fix_field_accesses(code) == ApplyRules(FFA_Rules, code)

\* The rules of apply_all_fixes applied last to first: the generic rules
\* before the specific ones.
apply_all_fixes_reversed(code) ==
  ApplyRules([k \in 1..Len(AAF_Rules) |-> AAF_Rules[Len(AAF_Rules) + 1 - k]], code)

apply_all_fixes(code) == ApplyRules(AAF_Rules, code)

expand_all(code) == ApplyRules(EA_Rules, code)

expand_struct_fields(code) == ApplyRules(ESF_Rules, code)

expand_more_function_names(code) == ApplyRules(mappings, code)

fix_string_slice_v2(code) == ApplyRules(SSV2_Rules, code)

fix_source_location(code) == ApplyRules(SL_Rules, code)

fix_string_slice_fields(code) == ApplyRules(SSF_Rules, code)

\* reformat_v2.py
apply_transformations(code, table) == ApplyRules(table, code)

replace_boolean_operators(code) == ApplyRules(RV2_BOOL, code)

reformat_v2(code) ==
  replace_boolean_operators(
    apply_transformations(
      apply_transformations(
        apply_transformations(code, TYPE_NAMES), FUNCTION_NAMES), COMMON_VARS))

(***************************************************************************)
(* fix_bigint_fields.py works on the lines of the file.                    *)
(***************************************************************************)
Min2(a, b) == IF a <= b THEN a ELSE b

\* f.readlines(): the text cut after each newline; every line keeps its
\* newline, the last line may lack one.  The text is cut after the first
\* newline of its second half (after its last newline, if the second half
\* has none before the end), and so are the two parts.
RECURSIVE readlines(_)
readlines(t) ==
  IF Len(t) = 0 THEN <<>>
  ELSE LET nl == {i \in 1..(Len(t) - 1) : t[i] = "\n"}
           half == (Len(t) + 1) \div 2
           late == {i \in nl : i >= half}
       IN  IF nl = {} THEN <<t>>
           ELSE LET m == IF late # {}
                         THEN CHOOSE i \in late :
                                \A j \in half..(i - 1) : t[j] # "\n"
                         ELSE CHOOSE i \in nl :
                                \A j \in (i + 1)..(Len(t) - 1) : t[j] # "\n"
                IN  readlines(SubSeq(t, 1, m))
                      \o readlines(SubSeq(t, m + 1, Len(t)))

\* f.writelines(lines): the lines lo..hi one after the other.
RECURSIVE writelines(_, _, _)
writelines(lines, lo, hi) ==
  IF lo > hi THEN <<>>
  ELSE IF lo = hi THEN lines[lo]
  ELSE LET mid == (lo + hi) \div 2
       IN  writelines(lines, lo, mid) \o writelines(lines, mid + 1, hi)

start_line == 73
end_line == 307

\* The range a loop without the guard of min would visit:
\* range(start_line, end_line).
LoopRange_NoMin(n) == start_line .. (end_line - 1)

\* range(start_line, min(end_line, len(lines))): the 0-based indices visited.
LoopRange(n) == start_line .. (Min2(end_line, n) - 1)

\* lines[i] with i >= len(lines) raises IndexError.
IndexError(n) == \E i \in LoopRange(n) : i >= n

\* The body of the loop: the eight substitutions on one line.
FixLine(line) == ApplyRules(BI_Rules, line)

\* The lines after the loop; list index i is sequence index i + 1.
fix_bigint_fields(lines) ==
  [k \in 1..Len(lines) |->
     IF (k - 1) \in LoopRange(Len(lines)) THEN FixLine(lines[k]) ELSE lines[k]]

\* expand_identifiers.py, lines 175-178: the four tables, in order.
expand_identifiers(code) ==
  ApplyRules(ENUM_MAPPINGS,
    ApplyRules(FUNCTION_MAPPINGS,
      ApplyRules(MACRO_MAPPINGS,
        ApplyRules(TYPE_MAPPINGS, code))))


(***************************************************************************)
(* State.                                                                  *)
(*   script  the script that is run on the file                            *)
(*   input   the text of the file before the first run                     *)
(*   file    the text of the file now (ada83.c, or the file named on the   *)
(*           command line)                                                 *)
(*   code    the rewritten text the last run computed (the script's        *)
(*           variable code, or its lines written out)                      *)
(*   out     the source text the last run printed on standard output       *)
(*   log     the messages the last run printed                             *)
(*   exit    the exit status of the last run                               *)
(*   runs    how many times the script has been run                        *)
(*   prog    for a generated C program, its functions (see Render)         *)
(*   docs    the documentation files of fix_docs.py, by their place in     *)
(*           its list: the text and whether it can be read and written     *)
(*   success_count   the count fix_docs.py reports                         *)
(*   encoding        the encoding of standard output                       *)
(***************************************************************************)
VARIABLES script, input, file, code, out, log, exit, runs, prog, docs,
          success_count, encoding

vars == <<script, input, file, code, out, log, exit, runs, prog, docs,
          success_count, encoding>>

MaxRuns == 2
MaxArgc == 3

\* print(code) ends the text with a newline.
Printed(text) == text \o <<"\n">>

\* fix_field_accesses.py, main (lines 155-166): the file is read, the result is printed; a command
\* line without exactly one argument ends the run with the usage message.
fix_field_accesses_py ==
  /\ script = "fix_field_accesses.py"
  /\ runs < MaxRuns
  /\ \E argc \in 1..MaxArgc :
       IF argc # 2
       THEN /\ log' = <<"Usage: python3 fix_field_accesses.py ada83.c">>
            /\ exit' = 1
            /\ code' = <<>>
            /\ out' = <<>>
       ELSE /\ log' = <<"Fixing field accesses...">>
            /\ code' = fix_field_accesses(f_read(file))
            /\ out' = Printed(code')
            /\ exit' = 0
  /\ runs' = runs + 1
  /\ UNCHANGED <<script, input, file, prog, docs, success_count, encoding>>

\* expand_all_identifiers.py, main (lines 214-228): the file is read, the result is printed; a command
\* line without exactly one argument ends the run with the usage message.
expand_all_identifiers_py ==
  /\ script = "expand_all_identifiers.py"
  /\ runs < MaxRuns
  /\ \E argc \in 1..MaxArgc :
       IF argc # 2
       THEN /\ log' = <<"Usage: python3 expand_all_identifiers.py ada83.c">>
            /\ exit' = 1
            /\ code' = <<>>
            /\ out' = <<>>
       ELSE /\ log' = <<"Phase 1: Expanding struct field names...", "Phase 2: Expanding remaining function names...">>
            /\ code' = expand_more_function_names(expand_struct_fields(f_read(file)))
            /\ out' = Printed(code')
            /\ exit' = 0
  /\ runs' = runs + 1
  /\ UNCHANGED <<script, input, file, prog, docs, success_count, encoding>>

\* reformat_v2.py, main (lines 82-96): the file is read, the result is printed; a command
\* line without exactly one argument ends the run with the usage message.
reformat_v2_py ==
  /\ script = "reformat_v2.py"
  /\ runs < MaxRuns
  /\ \E argc \in 1..MaxArgc :
       IF argc # 2
       THEN /\ log' = <<"Usage: python3 reformat_v2.py input.c">>
            /\ exit' = 1
            /\ code' = <<>>
            /\ out' = <<>>
       ELSE /\ log' = <<"Applying transformations...">>
            /\ code' = reformat_v2(f_read(file))
            /\ out' = Printed(code')
            /\ exit' = 0
  /\ runs' = runs + 1
  /\ UNCHANGED <<script, input, file, prog, docs, success_count, encoding>>

\* apply_all_field_fixes.py, main (lines 161-171): ada83.c is read, rewritten and written back.
apply_all_field_fixes_py ==
  /\ script = "apply_all_field_fixes.py"
  /\ runs < MaxRuns
  /\ code' = apply_all_fixes(f_read(file))
  /\ file' = code'
  /\ log' = <<"Applying comprehensive field access fixes...", "Done! Now testing compilation...">>
  /\ out' = <<>>
  /\ exit' = 0
  /\ runs' = runs + 1
  /\ UNCHANGED <<script, input, prog, docs, success_count, encoding>>

\* complete_expansion.py, lines 223-232: ada83.c is read, rewritten and written back.
complete_expansion_py ==
  /\ script = "complete_expansion.py"
  /\ runs < MaxRuns
  /\ code' = expand_all(f_read(file))
  /\ file' = code'
  /\ log' = <<"Applying complete expansion...", "Done!">>
  /\ out' = <<>>
  /\ exit' = 0
  /\ runs' = runs + 1
  /\ UNCHANGED <<script, input, prog, docs, success_count, encoding>>

\* fix_string_slice_v2.py, lines 9-40: ada83.c is read, rewritten and written back.
fix_string_slice_v2_py ==
  /\ script = "fix_string_slice_v2.py"
  /\ runs < MaxRuns
  /\ code' = fix_string_slice_v2(f_read(file))
  /\ file' = code'
  /\ log' = <<"Fixed String_Slice fields">>
  /\ out' = <<>>
  /\ exit' = 0
  /\ runs' = runs + 1
  /\ UNCHANGED <<script, input, prog, docs, success_count, encoding>>

\* fix_source_location.py, lines 9-32: ada83.c is read, rewritten and written back.
fix_source_location_py ==
  /\ script = "fix_source_location.py"
  /\ runs < MaxRuns
  /\ code' = fix_source_location(f_read(file))
  /\ file' = code'
  /\ log' = <<"Fixed Source_Location and KW fields">>
  /\ out' = <<>>
  /\ exit' = 0
  /\ runs' = runs + 1
  /\ UNCHANGED <<script, input, prog, docs, success_count, encoding>>

\* fix_string_slice_fields.py, lines 9-34: ada83.c is read, rewritten and written back.
fix_string_slice_fields_py ==
  /\ script = "fix_string_slice_fields.py"
  /\ runs < MaxRuns
  /\ code' = fix_string_slice_fields(f_read(file))
  /\ file' = code'
  /\ log' = <<"Fixed String_Slice fields">>
  /\ out' = <<>>
  /\ exit' = 0
  /\ runs' = runs + 1
  /\ UNCHANGED <<script, input, prog, docs, success_count, encoding>>

\* fix_bigint_fields.py, lines 9-47: the lines of ada83.c are read, the lines
\* of the loop's range are rewritten and all lines are written back.  An
\* exception ends the run before the file is opened for writing.
fix_bigint_fields_py ==
  /\ script = "fix_bigint_fields.py"
  /\ runs < MaxRuns
  /\ LET lines == readlines(f_read(file))
     IN  IF IndexError(Len(lines))
         THEN /\ log' = <<"IndexError: list index out of range">>
              /\ exit' = 1
              /\ code' = <<>>
              /\ UNCHANGED file
         ELSE /\ log' = <<"Fixed Unsigned_Big_Integer fields in lines 74-307">>
              /\ exit' = 0
              /\ code' = writelines(fix_bigint_fields(lines), 1, Len(lines))
              /\ file' = code'
  /\ out' = <<>>
  /\ runs' = runs + 1
  /\ UNCHANGED <<script, input, prog, docs, success_count, encoding>>

\* The last run rewrote the text.
Ran == runs > 0 /\ exit = 0

\* expand_identifiers.py, main (lines 166-180): the file is read, the result is
\* printed; a command line without exactly one argument ends the run with the
\* usage message.
expand_identifiers_py ==
  /\ script = "expand_identifiers.py"
  /\ runs < MaxRuns
  /\ \E argc \in 1..MaxArgc :
       IF argc # 2
       THEN /\ log' = <<"Usage: python3 expand_identifiers.py input.c">>
            /\ exit' = 1
            /\ code' = <<>>
            /\ out' = <<>>
       ELSE /\ log' = <<"Expanding identifiers:", "  Type names...", "  Macro names...",
                        "  Function names...", "  Enum constants...">>
            /\ code' = expand_identifiers(f_read(file))
            /\ out' = Printed(code')
            /\ exit' = 0
  /\ runs' = runs + 1
  /\ UNCHANGED <<script, input, file, prog, docs, success_count, encoding>>


(***************************************************************************)
(* Inputs.  A text is up to MaxFrags pieces of C source: a variable,       *)
(* member accesses with . and ->, a string quote, a semicolon.             *)
(***************************************************************************)
RECURSIVE Texts(_, _)
Texts(frags, n) ==
  IF n = 0 THEN {<<>>}
  ELSE LET shorter == Texts(frags, n - 1)
       IN  shorter \cup {f \o t : f \in frags, t \in shorter}

\* No script has run yet.
Fresh ==
  /\ file = input
  /\ code = <<>>
  /\ out = <<>>
  /\ log = <<>>
  /\ exit = 0
  /\ runs = 0
  /\ docs = <<>>
  /\ success_count = 0
  /\ encoding = "utf-8"

MaxFrags == 3

Fragments ==
  {<<"x">>, <<".","n">>, <<".","s">>, <<".","l">>, <<"-",">","s">>, <<"-",">","l">>, <<"\"">>, <<";">>}

\* The four scripts that expand every abbreviated member name.
RenameScripts ==
  {"fix_field_accesses.py", "apply_all_field_fixes.py",
   "complete_expansion.py", "expand_all_identifiers.py"}

\* Every string literal of the text is closed.
Closed(t) == Cardinality({i \in 1..Len(t) : t[i] = "\""}) % 2 = 0

Init ==
  /\ script \in RenameScripts
  /\ input \in {t \in Texts(Fragments, MaxFrags) : Closed(t)}
  /\ prog = <<>>
  /\ Fresh

Next ==
  \/ fix_field_accesses_py
  \/ apply_all_field_fixes_py
  \/ complete_expansion_py
  \/ expand_all_identifiers_py

Spec == Init /\ [][Next]_vars

\* The pass of a rename script and its rule table.
PassOf(s, t) ==
  CASE s = "fix_field_accesses.py" -> fix_field_accesses(t)
    [] s = "apply_all_field_fixes.py" -> apply_all_fixes(t)
    [] s = "complete_expansion.py" -> expand_all(t)
    [] s = "expand_all_identifiers.py" -> expand_struct_fields(t)

RulesOf(s) ==
  CASE s = "fix_field_accesses.py" -> FFA_Rules
    [] s = "apply_all_field_fixes.py" -> AAF_Rules
    [] s = "complete_expansion.py" -> EA_Rules
    [] s = "expand_all_identifiers.py" -> ESF_Rules

(***************************************************************************)
(* Conservativeness.                                                       *)
(***************************************************************************)
Quote == "\""

\* Position i lies inside a string literal: an odd number of quotes precede it.
InString(t, i) == Cardinality({j \in 1..(i - 1) : t[j] = Quote}) % 2 = 1

\* The first position of the identifier that position i belongs to.
IdentStart(t, i) == Min({j \in 1..i : \A k \in j..i : t[k] \in Word})

\* Position i belongs to a member name: an identifier outside string
\* literals that follows . or ->.
InMemberName(t, i) ==
  /\ t[i] \in Word
  /\ ~InString(t, i)
  /\ LET s == IdentStart(t, i)
     IN  \/ s > 1 /\ t[s - 1] = "."
         \/ s > 2 /\ t[s - 2] = "-" /\ t[s - 1] = ">"

\* The text with every member name replaced by one mark: all the bytes that
\* a rename of member names has to leave alone.
Skeleton(t) ==
  LET marked == [i \in 1..Len(t) |->
                   IF ~InMemberName(t, i) THEN t[i]
                   ELSE IF IdentStart(t, i) = i THEN "#" ELSE ""]
  IN  SelectSeq(marked, LAMBDA c : c # "")

\* C1: after a rename pass has run, the bytes of its result outside member
\* names, the contents of string literals among them, are those of the input.
C1_Conservative ==
  (Ran /\ script \in RenameScripts) => Skeleton(code) = Skeleton(input)

(***************************************************************************)
(* Idempotence.                                                            *)
(***************************************************************************)
\* C2: for each rename pass, the pass applied to its own output returns it
\* unchanged: rewrite(rewrite(I)) = rewrite(I).
C2_Idempotent ==
  (Ran /\ runs = 1 /\ script \in RenameScripts) =>
     PassOf(script, PassOf(script, input)) = PassOf(script, input)

(***************************************************************************)
(* Conflicting rules.                                                      *)
(***************************************************************************)
\* Two rules of the table have the same key, the pattern, and different
\* replacements.
HasConflict(rules) ==
  \E i, j \in 1..Len(rules) :
     i < j /\ rules[i][1] = rules[j][1] /\ rules[i][2] # rules[j][2]

\* C6: a script whose rule table holds two rules with the same key and
\* different targets rewrites nothing: each run ends with an error, the file
\* is as it was and no text is printed.
C6_ConflictRejected ==
  (runs > 0 /\ script \in RenameScripts /\ HasConflict(RulesOf(script))) =>
     (exit # 0 /\ file = input /\ out = <<>>)

(***************************************************************************)
(* C programs.  The scripts were written for ada83.c, whose struct types   *)
(* the comments of the scripts list with the names of their members:       *)
(*   Unsigned_Big_Integer: d→digits, n→count, c→capacity, s→is_negative    *)
(*   String_Slice: s→string, n→length                                      *)
(*   Source_Location: l→line, c→column, f→filename                         *)
(*   Token: t→kind, l→location (a Source_Location)                         *)
(* A generated program is a sequence of functions; each declares at most   *)
(* one parameter and accesses a member, or a member of a member, of it:    *)
(*   void f(String_Slice *s){s->n;}                                        *)
(* A function without a declaration accesses a variable whose type the     *)
(* file does not tell:  void f(){s.n;}                                     *)
(***************************************************************************)
Unsigned_Big_Integer == <<"U","n","s","i","g","n","e","d","_","B","i","g","_","I","n","t","e","g","e","r">>
String_Slice == <<"S","t","r","i","n","g","_","S","l","i","c","e">>
Source_Location == <<"S","o","u","r","c","e","_","L","o","c","a","t","i","o","n">>
Token == <<"T","o","k","e","n">>
Unknown == <<>>

\* <<owner type, abbreviated member, canonical name, type of the member>>
Members ==
  { <<Unsigned_Big_Integer, <<"d">>, <<"d","i","g","i","t","s">>, Unknown>>,
    <<Unsigned_Big_Integer, <<"n">>, <<"c","o","u","n","t">>, Unknown>>,
    <<Unsigned_Big_Integer, <<"c">>, <<"c","a","p","a","c","i","t","y">>, Unknown>>,
    <<Unsigned_Big_Integer, <<"s">>, <<"i","s","_","n","e","g","a","t","i","v","e">>, Unknown>>,
    <<String_Slice, <<"s">>, <<"s","t","r","i","n","g">>, Unknown>>,
    <<String_Slice, <<"n">>, <<"l","e","n","g","t","h">>, Unknown>>,
    <<Source_Location, <<"l">>, <<"l","i","n","e">>, Unknown>>,
    <<Source_Location, <<"c">>, <<"c","o","l","u","m","n">>, Unknown>>,
    <<Source_Location, <<"f">>, <<"f","i","l","e","n","a","m","e">>, Unknown>>,
    <<Token, <<"t">>, <<"k","i","n","d">>, Unknown>>,
    <<Token, <<"l">>, <<"l","o","c","a","t","i","o","n">>, Source_Location>> }

Member(type, m) == CHOOSE r \in Members : r[1] = type /\ r[2] = m

\* The member paths the generated functions access, by the parameter's type.
PathsOf(type) ==
  CASE type = Unsigned_Big_Integer -> {<<<<"n">>>>, <<<<"s">>>>}
    [] type = String_Slice -> {<<<<"n">>>>, <<<<"s">>>>}
    [] type = Source_Location -> {<<<<"l">>>>, <<<<"c">>>>}
    [] type = Token -> {<<<<"l">>, <<"l">>>>, <<<<"l">>, <<"c">>>>}
    [] type = Unknown -> {<<<<"n">>>>}

Types == {Unsigned_Big_Integer, String_Slice, Source_Location, Token, Unknown}

\* The name of the variable: s, which the fix scripts take for a
\* String_Slice, or l, which they take for a Source_Location.
VarOf(type) ==
  IF type \in {Source_Location, Token} THEN <<"l">> ELSE <<"s">>

Functions ==
  UNION {{[type |-> ty, var |-> VarOf(ty), ptr |-> p, path |-> pa] :
            p \in BOOLEAN, pa \in PathsOf(ty)} : ty \in Types}

MaxFuncs == 2

RECURSIVE Programs(_)
Programs(n) ==
  IF n = 0 THEN {<<>>}
  ELSE LET shorter == Programs(n - 1)
       IN  shorter \cup {<<fn>> \o p : fn \in Functions, p \in {q \in shorter : Len(q) = n - 1}}

\* The names of the functions of a program, in order.
FuncName(i) == <<<<"f", "g", "h", "k">>[i]>>

\* The C text of the i-th function, accessing the member path given.
Render(fn, i, path) ==
  LET decl == IF fn.type = Unknown THEN <<>>
              ELSE fn.type \o <<" ">> \o (IF fn.ptr THEN <<"*">> ELSE <<>>) \o fn.var
      first == fn.var \o (IF fn.ptr THEN <<"-",">">> ELSE <<".">>) \o path[1]
      access == IF Len(path) = 1 THEN first ELSE first \o <<".">> \o path[2]
  IN  <<"v","o","i","d"," ">> \o FuncName(i) \o <<"(">> \o decl \o <<")", "{">> \o access \o <<";", "}">>

RECURSIVE RenderAll(_, _)
RenderAll(p, i) ==
  IF i > Len(p) THEN <<>> ELSE Render(p[i], i, p[i].path) \o RenderAll(p, i + 1)

\* The member path with each member under its canonical name: the first
\* member by the rule of the parameter's type, the second by the rule of the
\* first member's type.  The access of an untyped variable stays.
Canonical(fn) ==
  IF fn.type = Unknown THEN fn.path
  ELSE LET m1 == Member(fn.type, fn.path[1])
       IN  IF Len(fn.path) = 1 THEN <<m1[3]>>
           ELSE <<m1[3], Member(m1[4], fn.path[2])[3]>>

\* The text of the i-th function of a text: functions end with a brace.
Segment(t, i) ==
  LET ends == {p \in 1..Len(t) : t[p] = "}"}
      EndOf(k) == IF k = 0 THEN 0
                  ELSE CHOOSE p \in ends : Cardinality({q \in ends : q <= p}) = k
  IN  SubSeq(t, EndOf(i - 1) + 1, EndOf(i))

\* The scripts that fix the members of one struct type for the variable
\* names they list.
FixScripts ==
  {"fix_string_slice_v2.py", "fix_source_location.py", "fix_string_slice_fields.py"}

ProgScripts ==
  {"fix_field_accesses.py", "apply_all_field_fixes.py", "complete_expansion.py"}
    \cup FixScripts

ProgInit ==
  /\ script \in ProgScripts
  /\ prog \in Programs(MaxFuncs)
  /\ input = RenderAll(prog, 1)
  /\ Fresh

ProgNext ==
  \/ fix_field_accesses_py
  \/ apply_all_field_fixes_py
  \/ complete_expansion_py
  \/ fix_string_slice_v2_py
  \/ fix_source_location_py
  \/ fix_string_slice_fields_py

ProgSpec == ProgInit /\ [][ProgNext]_vars

\* The struct type whose members a fix script is written for.
TargetType(s) ==
  CASE s = "fix_string_slice_v2.py" -> String_Slice
    [] s = "fix_string_slice_fields.py" -> String_Slice
    [] s = "fix_source_location.py" -> Source_Location

\* The progress messages of the scripts.
Banners ==
  {"Fixing field accesses...",
   "Applying comprehensive field access fixes...", "Done! Now testing compilation...",
   "Applying complete expansion...", "Done!",
   "Fixed String_Slice fields", "Fixed Source_Location and KW fields"}

\* C3: fix_field_accesses renames a member by the type of the variable it is
\* accessed on: s.n is s.length for a String_Slice s and s.count for an
\* Unsigned_Big_Integer s.
C3_ByOwnerType ==
  (Ran /\ script = "fix_field_accesses.py") =>
     \A i \in 1..Len(prog) :
        prog[i].type \in {Unsigned_Big_Integer, String_Slice} =>
           Segment(code, i) = Render(prog[i], i, Canonical(prog[i]))

\* C4: in a chain on a Token, t->l.l or t.l.c, apply_all_fixes renames the
\* first member by the rule of Token (location) and the second by the rule of
\* the first member's type, Source_Location (line, column).
C4_ChainByOwner ==
  (Ran /\ script = "apply_all_field_fixes.py") =>
     \A i \in 1..Len(prog) :
        prog[i].type = Token =>
           Segment(code, i) = Render(prog[i], i, Canonical(prog[i]))

\* C5: a rename script leaves the access of a variable without a
\* determinable type as it is and lists it in what it prints.
C5_UnresolvedKept ==
  (Ran /\ script \in RenameScripts) =>
     \A i \in 1..Len(prog) :
        prog[i].type = Unknown =>
           /\ Segment(code, i) = Segment(input, i)
           /\ \E k \in 1..Len(log) : log[k] \notin Banners

\* C8: a fix script for the variables named s or l of one struct type leaves
\* the accesses of a same-named variable of another type in another function
\* as they are.
C8_ScopedBindings ==
  (Ran /\ script \in FixScripts) =>
     \A i, j \in 1..Len(prog) :
        (/\ prog[i].type = TargetType(script)
         /\ prog[j].var = prog[i].var
         /\ prog[j].type \notin {TargetType(script), Unknown})
        => Segment(code, j) = Segment(input, j)

(***************************************************************************)
(* fix_bigint_fields.py.  The file has up to MaxLines lines, all with the  *)
(* same member access; its last line ends with a newline or does not.      *)
(***************************************************************************)
MaxLines == 309

\* <<a line with a member access of an Unsigned_Big_Integer, the line with
\* the member under its full name>>
BigintLines ==
  { <<<<"u","-",">","n",";">>, <<"u","-",">","c","o","u","n","t",";">>>>,
    <<<<"v",".","s",";">>, <<"v",".","i","s","_","n","e","g","a","t","i","v","e",";">>>> }

LineBodies == {p[1] : p \in BigintLines}

\* The text of a file of n lines.
FileOf(n, body, newline) ==
  writelines([k \in 1..n |->
                IF k < n \/ newline THEN body \o <<"\n">> ELSE body], 1, n)

BigintInit ==
  /\ script = "fix_bigint_fields.py"
  /\ \E n \in 0..MaxLines, body \in LineBodies, newline \in BOOLEAN :
        input = FileOf(n, body, newline)
  /\ prog = <<>>
  /\ Fresh

BigintNext == fix_bigint_fields_py

BigintSpec == BigintInit /\ [][BigintNext]_vars

\* The line with its member access rewritten; the end of the line stays.
Rewritten(line) ==
  LET p == CHOOSE q \in BigintLines :
             Len(q[1]) <= Len(line) /\ SubSeq(line, 1, Len(q[1])) = q[1]
  IN  p[2] \o SubSeq(line, Len(p[1]) + 1, Len(line))

MaxPieces == 3

Pieces ==
  {<<"N","_","A">>, <<"V","K","_","I">>, <<"T","Y","_","S">>, <<"R","C","_","X">>, <<"U">>, <<"b">>, <<"!">>, <<"&","&">>,
   <<"(">>, <<"\"">>, <<" ">>}

ReformatInit ==
  /\ script = "reformat_v2.py"
  /\ input \in {t \in Texts(Pieces, MaxPieces) : Closed(t)}
  /\ prog = <<>>
  /\ Fresh

ReformatNext == reformat_v2_py

ReformatSpec == ReformatInit /\ [][ReformatNext]_vars

\* The identifiers of a text, in order: the maximal runs of word characters.
Identifiers(t) ==
  LET starts == {i \in 1..Len(t) : IsWordAt(t, i) /\ ~IsWordAt(t, i - 1)}
      StartOf(k) == CHOOSE s \in starts : Cardinality({q \in starts : q < s}) = k - 1
  IN  [k \in 1..Cardinality(starts) |->
         SubSeq(t, StartOf(k), StartOf(k) + RunLen(t, StartOf(k), Word, FALSE) - 1)]

\* An identifier of the form N_*, VK_*, TY_* or RC_*.
IsEnumConstant(id) ==
  \/ Len(id) > 2 /\ SubSeq(id, 1, 2) = <<"N","_">>
  \/ Len(id) > 3 /\ SubSeq(id, 1, 3) \in {<<"V","K","_">>, <<"T","Y","_">>, <<"R","C","_">>}

EnumConstants(t) == SelectSeq(Identifiers(t), IsEnumConstant)

\* C10: the enum constants of the text reformat_v2.py prints are those of
\* its input, each exactly as in the input and in the same order.
C10_EnumConstantsKept ==
  (script = "reformat_v2.py" /\ Ran) =>
     EnumConstants(code) = EnumConstants(input)

(***************************************************************************)
(* The order of the rules of apply_all_fixes.  The input is a variable     *)
(* followed by up to MaxAccesses member accesses.                          *)
(***************************************************************************)
MaxAccesses == 2

Accesses ==
  {<<".","l">>, <<"-",">","l">>, <<".","c">>, <<".","e","r">>, <<".","n">>, <<";">>}

OrderInit ==
  /\ script = "apply_all_field_fixes.py"
  /\ input \in {<<"x">> \o t : t \in Texts(Accesses, MaxAccesses)}
  /\ prog = <<>>
  /\ Fresh

OrderNext == apply_all_field_fixes_py

OrderSpec == OrderInit /\ [][OrderNext]_vars

\* The rules in another order: order[k] is the rule applied k-th.
Permute(rules, order) == [k \in 1..Len(rules) |-> rules[order[k]]]

\* Rules k and k + 1 exchanged; rule k applied first; all rules reversed.
Swapped(n, k) ==
  [i \in 1..n |-> IF i = k THEN k + 1 ELSE IF i = k + 1 THEN k ELSE i]

Moved(n, k) ==
  [i \in 1..n |-> IF i = 1 THEN k ELSE IF i <= k THEN i - 1 ELSE i]

Reversed(n) == [i \in 1..n |-> n + 1 - i]

Orders(n) ==
  {Swapped(n, k) : k \in 1..(n - 1)} \cup {Moved(n, k) : k \in 1..n}
    \cup {Reversed(n)}

\* The member accesses a literal text names: . or -> with the name after it.
AccessesIn(s) ==
  LET dots == {i \in 1..Len(s) : s[i] = "." /\ IsWordAt(s, i + 1)}
      arrows == {i \in 1..(Len(s) - 1) :
                   s[i] = "-" /\ s[i + 1] = ">" /\ IsWordAt(s, i + 2)}
  IN  {SubSeq(s, i, i + RunLen(s, i + 1, Word, FALSE)) : i \in dots}
        \cup {SubSeq(s, i, i + 1 + RunLen(s, i + 2, Word, FALSE)) : i \in arrows}

\* The member accesses the pattern of a rule names.
Keys(rule) ==
  UNION {AccessesIn(rule[1][k][2]) :
           k \in {j \in 1..Len(rule[1]) : rule[1][j][1] = "lit"}}

\* The rules of apply_all_fixes, by their places in the table, with the
\* accesses they name.
RuleKeys == {<<k, Keys(AAF_Rules[k])>> : k \in 1..Len(AAF_Rules)}

\* The pairs of dependent rules of apply_all_fixes, by their places: two
\* rules depend on each other when their patterns name a common access.
DependentPairs ==
  LET keyed == RuleKeys
  IN  UNION {{<<a[1], b[1]>> :
                b \in {c \in keyed : a[1] < c[1] /\ a[2] \cap c[2] # {}}} :
             a \in keyed}

AllOrders == Orders(Len(AAF_Rules))

\* The orders that apply every two dependent rules in the order of the table.
KeepingOrders ==
  LET pairs == DependentPairs
      At(order, r) == CHOOSE k \in 1..Len(order) : order[k] = r
  IN  {order \in AllOrders :
         \A p \in pairs : At(order, p[1]) < At(order, p[2])}

split(content) ==
  LET nls == {i \in 1..Len(content) : content[i] = "\n"}
      n == Cardinality(nls)
      Pos(k) == IF k = 0 THEN 0
                ELSE IF k = n + 1 THEN Len(content) + 1
                ELSE CHOOSE i \in nls : Cardinality({j \in nls : j < i}) = k - 1
  IN  [k \in 1..(n + 1) |-> SubSeq(content, Pos(k - 1) + 1, Pos(k) - 1)]

\* '\n'.join(lines)
RECURSIVE join(_)
join(lines) ==
  IF Len(lines) = 0 THEN <<>>
  ELSE IF Len(lines) = 1 THEN lines[1]
  ELSE lines[1] \o <<"\n">> \o join(Tail(lines))

\* The lines of a text, each rewritten by the operator F.
MapLines(F(_), content) ==
  LET lines == split(content)
  IN  join([k \in 1..Len(lines) |-> F(lines[k])])

lstrip(line) == SubSeq(line, 1 + RunLen(line, 1, Space, FALSE), Len(line))

rstrip(line) ==
  LET keep == {i \in 1..Len(line) : line[i] \notin Space}
  IN  IF keep = {} THEN <<>> ELSE SubSeq(line, 1, Max(keep))

strip(line) == rstrip(lstrip(line))

startswith(line, prefix) ==
  Len(prefix) <= Len(line) /\ SubSeq(line, 1, Len(prefix)) = prefix

\* str.lower() on the letters of the model.
LowerOf ==
  [c \in Upper |->
     CASE c = "A" -> "a" [] c = "B" -> "b" [] c = "C" -> "c" [] c = "D" -> "d"
       [] c = "E" -> "e" [] c = "F" -> "f" [] c = "G" -> "g" [] c = "H" -> "h"
       [] c = "I" -> "i" [] c = "J" -> "j" [] c = "K" -> "k" [] c = "L" -> "l"
       [] c = "M" -> "m" [] c = "N" -> "n" [] c = "O" -> "o" [] c = "P" -> "p"
       [] c = "Q" -> "q" [] c = "R" -> "r" [] c = "S" -> "s" [] c = "T" -> "t"
       [] c = "U" -> "u" [] c = "V" -> "v" [] c = "W" -> "w" [] c = "X" -> "x"
       [] c = "Y" -> "y" [] c = "Z" -> "z"]

lower(line) ==
  [i \in 1..Len(line) |-> IF line[i] \in Upper THEN LowerOf[line[i]] ELSE line[i]]

\* clean_line_numbers, line 18: re.sub(r'^\s*\d+→', '', line).
RemoveLineNumber(line) ==
  LET blanks == RunLen(line, 1, Space, FALSE)
      digits == RunLen(line, blanks + 1, Digit, FALSE)
      arrow == blanks + digits + 1
  IN  IF digits >= 1 /\ arrow <= Len(line) /\ line[arrow] = "→"
      THEN SubSeq(line, arrow + 1, Len(line))
      ELSE line

clean_line_numbers(content) == MapLines(RemoveLineNumber, content)

\* fix_underscores, lines 26-28.
FU_Rules ==
  << <<L(<<"N","0","0","0","1","4","_","8","4","-","C","_","2","4","4","5">>), R(<<"N","0","0","0","1","4","-","8","4","-","C","-","2","4","4","5">>)>>,
     <<L(<<"A","N","S","I","/","M","I","L","_","S","T","O","-","1","8","1","5","A">>), R(<<"A","N","S","I","/","M","I","L","-","S","T","D","-","1","8","1","5","A">>)>>,
     <<L(<<"A","N","S","I","/","M","I","L","_","S","T","D","-","1","8","1","5","A">>), R(<<"A","N","S","I","/","M","I","L","-","S","T","D","-","1","8","1","5","A">>)>> >>

fix_underscores(content) == ApplyRules(FU_Rules, content)

\* fix_dots_spacing, lines 41-43: in a line with '........' or '. . . . .'
\* every run of three or more dots and blanks becomes one blank.
DotsOrBlanks == Space \cup {"."}

CollapseDots(line) ==
  IF Occurs(<<".",".",".",".",".",".",".",".">>, line) \/ Occurs(<<"."," ","."," ","."," ","."," ",".">>, line)
  THEN Sub(<< <<"in", DotsOrBlanks>>, <<"in", DotsOrBlanks>>,
              <<"in", DotsOrBlanks>>, <<"star", DotsOrBlanks>> >>,
           R(<<" ">>), line)
  ELSE line

fix_dots_spacing(content) == MapLines(CollapseDots, content)

\* fix_special_chars, lines 53-57.  The quotes of lines 54-55 are plain
\* apostrophes in the source: ''' opens a string that runs to the ''' of the
\* next line, and that text is what is replaced by an apostrophe.  Lines
\* 56-57 replace " by itself.
SC_Rules ==
  << <<L(<<"¢">>), R(<<"s">>)>>,
     <<L(<<","," ","\"","'","\"",")"," "," ","#"," ","s","m","a","r","t"," ","q","u","o","t","e","s">> \o <<"\n">>
          \o <<" "," "," "," ","c","o","n","t","e","n","t"," ","="," ","c","o","n","t","e","n","t",".","r","e","p","l","a","c","e","(">>),
       R(<<"'">>)>>,
     <<L(<<"\"">>), R(<<"\"">>)>>,
     <<L(<<"\"">>), R(<<"\"">>)>> >>

fix_special_chars(content) == ApplyRules(SC_Rules, content)

\* fix_code_blocks, lines 61-141.  A TLA+ string cannot hold the backquote
\* character; the model writes it as the acute accent.
Backquote == "´"

IsMarker(line) == startswith(strip(line), <<Backquote, Backquote, Backquote>>)

ada_keywords ==
  {<<"p","r","o","c","e","d","u","r","e">>, <<"f","u","n","c","t","i","o","n">>, <<"p","a","c","k","a","g","e">>, <<"b","e","g","i","n">>, <<"e","n","d">>, <<"t","y","p","e">>,
   <<"w","i","t","h">>, <<"u","s","e">>}

code_indicators ==
  {<<":","=">>, <<"-","-">>, <<";">>, <<"r","e","t","u","r","n">>, <<"d","e","c","l","a","r","e">>, <<"l","o","o","p">>, <<"i","f">>,
   <<"t","h","e","n">>, <<"e","l","s","e">>}

\* Lines 103-116: a content line that makes the block actual code.
LooksLikeCode(cl) ==
  LET stripped == lower(strip(cl))
  IN  \/ \E keyword \in ada_keywords :
            startswith(stripped, keyword \o <<" ">>) \/ stripped = keyword
      \/ \E indicator \in code_indicators : Occurs(indicator, cl)

\* len(cl.strip().split()): the number of words of a line.
WordCount(cl) ==
  Cardinality({i \in 1..Len(cl) :
                 cl[i] \notin Space /\ (i = 1 \/ cl[i - 1] \in Space)})

\* Line 121: every non-blank content line has at most five words.
list_like(content_lines) ==
  \A k \in 1..Len(content_lines) :
     strip(content_lines[k]) # <<>> => WordCount(content_lines[k]) <= 5

\* The while loop of lines 69-139: i is the (1-based) index of the line at
\* hand, skip is skip_until_closing.
RECURSIVE CodeBlocksLoop(_, _, _, _)
CodeBlocksLoop(lines, i, skip, result) ==
  IF i > Len(lines) THEN result
  ELSE
    LET line == lines[i]
    IN  IF skip
        THEN IF IsMarker(line)
             THEN CodeBlocksLoop(lines, i + 1, FALSE, result)
             ELSE CodeBlocksLoop(lines, i + 1, TRUE, Append(result, line))
        ELSE IF IsMarker(line)
        THEN LET closing == {k \in (i + 1)..Len(lines) : IsMarker(lines[k])}
                 j == IF closing = {} THEN Len(lines) + 1 ELSE Min(closing)
                 content_lines == SubSeq(lines, i + 1, j - 1)
                 is_actual_code ==
                   \E k \in 1..Len(content_lines) : LooksLikeCode(content_lines[k])
             IN  IF Len(content_lines) = 0
                 THEN CodeBlocksLoop(lines, j + 1, FALSE, result)
                 ELSE IF /\ ~is_actual_code
                         /\ list_like(content_lines)
                         /\ Len(content_lines) < 10
                 THEN CodeBlocksLoop(lines, i + 1, TRUE, result)
                 ELSE IF is_actual_code
                 THEN CodeBlocksLoop(lines, i + 1, FALSE, Append(result, line))
                 ELSE CodeBlocksLoop(lines, i + 1, TRUE, result)
        ELSE CodeBlocksLoop(lines, i + 1, FALSE, Append(result, line))

\* fix_code_blocks working on the stripped lines: what line.strip() is
\* tested is also what is kept.
fix_code_blocks_stripped(content) ==
  LET lines == split(content)
  IN  join(CodeBlocksLoop([k \in 1..Len(lines) |-> strip(lines[k])], 1, FALSE, <<>>))

fix_code_blocks(content) == join(CodeBlocksLoop(split(content), 1, FALSE, <<>>))

\* fix_spacing, lines 156-170: trailing blanks go, the indentation becomes
\* spaces, runs of spaces in the rest become one space unless the rest
\* starts with # or -.
SpaceLine(line0) ==
  LET line == rstrip(line0)
      rest == lstrip(line)
      leading == Len(line) - Len(rest)
      fixed == IF ~startswith(rest, <<"#">>) /\ ~startswith(rest, <<"-">>)
               THEN Sub(<< <<"lit", <<" "," ">>>>, <<"star", {" "}>> >>, R(<<" ">>), rest)
               ELSE rest
  IN  IF strip(line) # <<>>
      THEN [k \in 1..leading |-> " "] \o fixed
      ELSE line

fix_spacing(content) == MapLines(SpaceLine, content)

\* remove_excessive_blank_lines, lines 146-147: as long as the text holds
\* four newlines in a row, each such run (left to right, not overlapping)
\* becomes three.
RECURSIVE remove_excessive_blank_lines(_)
remove_excessive_blank_lines(content) ==
  IF Occurs(<<"\n", "\n", "\n", "\n">>, content)
  THEN remove_excessive_blank_lines(
         Sub(L(<<"\n", "\n", "\n", "\n">>), R(<<"\n", "\n", "\n">>), content))
  ELSE content

\* clean_document, lines 174-197.
clean_document(content) ==
  remove_excessive_blank_lines(
    fix_spacing(
      fix_code_blocks(
        fix_special_chars(
          fix_dots_spacing(
            fix_underscores(
              clean_line_numbers(content)))))))

(***************************************************************************)
(* fix_docs.py, process_file and main.  A file of the list is a record:    *)
(*   content   its text                                                    *)
(*   readable  open(filepath, 'r') and f.read() succeed                    *)
(*   writable  "yes": the file can be written; "no": open(filepath, 'w')   *)
(*             raises; "torn": the file is opened (and so emptied) and     *)
(*             the text is lost when the file is closed                    *)
(* A message of the log is <<text>> or <<text, place of the file>>.         *)
(***************************************************************************)
files == 1..3

\* The messages clean_document prints, lines 176-194.
CleaningMessages ==
  << <<"  Removing line numbers...">>, <<"  Fixing underscores...">>,
     <<"  Fixing dots and spacing...">>, <<"  Fixing special characters...">>,
     <<"  Fixing code blocks...">>, <<"  Fixing spacing...">>,
     <<"  Removing excessive blank lines...">> >>

\* print() of a text that holds the check mark raises UnicodeEncodeError
\* unless standard output can encode it.
CanPrintCheckMark(enc) == enc = "utf-8"

\* process_file, lines 199-222: the file afterwards, the value returned and
\* the messages printed.  The success message is printed inside the with
\* block: an exception of the print or of closing the file is caught by
\* the except clause of the write.
process_file(k, doc, enc) ==
  LET cleaned == clean_document(f_read(doc.content))
      start == << <<"Processing", k>> >>
  IN  IF ~doc.readable
      THEN [doc |-> doc, ok |-> FALSE,
            log |-> start \o << <<"Error reading", k>> >>]
      ELSE IF doc.writable = "no"
      THEN [doc |-> doc, ok |-> FALSE,
            log |-> start \o CleaningMessages \o << <<"Error writing", k>> >>]
      ELSE IF ~CanPrintCheckMark(enc)
      THEN [doc |-> [doc EXCEPT !.content =
                       IF doc.writable = "yes" THEN cleaned ELSE <<>>],
            ok |-> FALSE,
            log |-> start \o CleaningMessages \o << <<"Error writing", k>> >>]
      ELSE IF doc.writable = "torn"
      THEN [doc |-> [doc EXCEPT !.content = <<>>], ok |-> FALSE,
            log |-> start \o CleaningMessages
                      \o << <<"Successfully cleaned", k>>, <<"Error writing", k>> >>]
      ELSE [doc |-> [doc EXCEPT !.content = cleaned], ok |-> TRUE,
            log |-> start \o CleaningMessages \o << <<"Successfully cleaned", k>> >>]

\* The loop of main, lines 235-237, from file k on.
RECURSIVE MainLoop(_, _, _)
MainLoop(k, state, enc) ==
  IF k > Cardinality(files) THEN state
  ELSE LET r == process_file(k, state.docs[k], enc)
       IN  MainLoop(k + 1,
                    [docs |-> [state.docs EXCEPT ![k] = r.doc],
                     success_count |-> state.success_count + (IF r.ok THEN 1 ELSE 0),
                     log |-> state.log \o r.log],
                    enc)

\* fix_docs.py, main (lines 224-241).
fix_docs_py ==
  /\ script = "fix_docs.py"
  /\ runs < MaxRuns
  /\ LET end == MainLoop(1, [docs |-> docs, success_count |-> 0,
                             log |-> << <<"Starting documentation cleanup...">> >>],
                         encoding)
     IN  /\ docs' = end.docs
         /\ success_count' = end.success_count
         /\ log' = end.log \o << <<"Completed", end.success_count, Cardinality(files)>> >>
  /\ exit' = 0
  /\ runs' = runs + 1
  /\ UNCHANGED <<script, input, file, code, out, prog, encoding>>

(***************************************************************************)
(* The runs of fix_docs.py.  Each of the three files holds a short text    *)
(* and can or cannot be read and written; standard output is UTF-8 or      *)
(* ASCII.                                                                  *)
(***************************************************************************)
MaxDocPieces == 1

DocPieces == {<<" ","1","→","a"," "," ","b">>, <<"a", "\r", "\n", "\n", "\n", "\n", "\n", "b">>}

DocStates ==
  [content : Texts(DocPieces, MaxDocPieces), readable : {TRUE},
   writable : {"yes", "no", "torn"}]
    \cup [content : Texts(DocPieces, MaxDocPieces), readable : {FALSE},
          writable : {"yes"}]

DocsInit ==
  /\ script = "fix_docs.py"
  /\ docs \in [files -> DocStates]
  /\ input = docs
  /\ encoding \in {"utf-8", "ascii"}
  /\ file = <<>>
  /\ code = <<>>
  /\ out = <<>>
  /\ log = <<>>
  /\ exit = 0
  /\ runs = 0
  /\ prog = <<>>
  /\ success_count = 0

DocsNext == fix_docs_py

DocsSpec == DocsInit /\ [][DocsNext]_vars

\* The message is in the log.
Logged(message) == \E i \in 1..Len(log) : log[i] = message

\* File k of the list was read and written by the first run.
ReadAndWritten(k) == input[k].readable /\ input[k].writable = "yes"

\* C11: after a run of fix_docs.py every file that could be read and
\* written holds the text clean_document makes of its own text, whatever
\* happened to the other files; every file that could not is reported with
\* an error message; and the success count is the number of files that were
\* read and written.
C11_FailureIsolation ==
  (script = "fix_docs.py" /\ runs = 1) =>
     /\ \A k \in files :
           IF ReadAndWritten(k)
           THEN docs[k].content = clean_document(f_read(input[k].content))
           ELSE Logged(<<"Error reading", k>>) \/ Logged(<<"Error writing", k>>)
     /\ success_count = Cardinality({k \in files : ReadAndWritten(k)})

(***************************************************************************)
(* Exit codes.  The two scripts that take the file on the command line     *)
(* and end with sys.exit, run on the generated programs.                   *)
(***************************************************************************)
ExitScripts == {"fix_field_accesses.py", "expand_identifiers.py"}

ExitInit ==
  /\ script \in ExitScripts
  /\ prog \in Programs(MaxFuncs)
  /\ input = RenderAll(prog, 1)
  /\ Fresh

ExitNext ==
  \/ fix_field_accesses_py
  \/ expand_identifiers_py

ExitSpec == ExitInit /\ [][ExitNext]_vars

\* The rule table of a script, all its rules in order.
TableOf(s) ==
  IF s = "expand_identifiers.py"
  THEN TYPE_MAPPINGS \o MACRO_MAPPINGS \o FUNCTION_MAPPINGS \o ENUM_MAPPINGS
  ELSE RulesOf(s)

\* The member accesses the rules of the two scripts name.
FFA_Keys == UNION {Keys(FFA_Rules[k]) : k \in 1..Len(FFA_Rules)}

EI_Keys == UNION {Keys(TableOf("expand_identifiers.py")[k]) :
                    k \in 1..Len(TableOf("expand_identifiers.py"))}

KeysOf(s) == IF s = "expand_identifiers.py" THEN EI_Keys ELSE FFA_Keys

\* The unresolved occurrences of a program: the member accesses a rule of
\* the script names, made on a variable without a declared type.
Unresolved(s, p) ==
  {i \in 1..Len(p) :
     /\ p[i].type = Unknown
     /\ ((IF p[i].ptr THEN <<"-",">">> ELSE <<".">>) \o p[i].path[1]) \in KeysOf(s)}

\* The run printed the rewritten text.
Succeeded == out # <<>>

\* C12: the exit code is 0 exactly for a run that succeeded without
\* unresolved occurrences, 1 exactly for a run that succeeded with
\* unresolved occurrences, 2 exactly for an input with an unterminated
\* literal and 3 exactly for a rule table with conflicting rules.
C12_ExitCodes ==
  (runs > 0 /\ script \in ExitScripts) =>
     /\ exit = 0 <=> (Succeeded /\ Unresolved(script, prog) = {})
     /\ exit = 1 <=> (Succeeded /\ Unresolved(script, prog) # {})
     /\ exit = 2 <=> ~Closed(input)
     /\ exit = 3 <=> HasConflict(TableOf(script))

(***************************************************************************)
(* Nested blocks.  A function whose parameter s is declared again in the   *)
(* blocks nested in its body, each block accessing the same member of s:   *)
(*   void f(String_Slice s){s.n;{Unsigned_Big_Integer s;s.n;}s.n;}         *)
(* levels is the sequence of the declared types, the parameter's first.    *)
(***************************************************************************)
MaxDepth == 1

SlotTypes == {Unsigned_Big_Integer, String_Slice}

RECURSIVE Nestings(_)
Nestings(n) ==
  IF n = 0 THEN {<<ty>> : ty \in SlotTypes}
  ELSE LET shallower == Nestings(n - 1)
       IN  shallower \cup {<<ty>> \o l : ty \in SlotTypes,
                                          l \in {q \in shallower : Len(q) = n}}

\* The block of level k and the blocks nested in it; names[k] is the member
\* name the accesses of level k use.
RECURSIVE Block(_, _, _)
Block(levels, k, names) ==
  LET access == <<"s",".">> \o names[k] \o <<";">>
  IN  IF k = Len(levels) THEN access
      ELSE access \o <<"{">> \o levels[k + 1] \o <<" ","s",";">>
             \o Block(levels, k + 1, names) \o <<"}">> \o access

RenderNested(levels, names) ==
  <<"v","o","i","d"," ","f","(">> \o levels[1] \o <<" ","s",")">> \o <<"{">> \o Block(levels, 1, names) \o <<"}">>

ShadowScripts ==
  {"fix_field_accesses.py", "apply_all_field_fixes.py", "complete_expansion.py",
   "fix_string_slice_v2.py", "fix_string_slice_fields.py"}

ShadowInit ==
  /\ script \in ShadowScripts
  /\ \E levels \in Nestings(MaxDepth), m \in {<<"n">>, <<"s">>} :
        /\ prog = [levels |-> levels, member |-> m]
        /\ input = RenderNested(levels, [k \in 1..Len(levels) |-> m])
  /\ Fresh

ShadowNext ==
  \/ fix_field_accesses_py
  \/ apply_all_field_fixes_py
  \/ complete_expansion_py
  \/ fix_string_slice_v2_py
  \/ fix_string_slice_fields_py

ShadowSpec == ShadowInit /\ [][ShadowNext]_vars

\* The name a script is to give member m of a value of the type: the
\* canonical name, for a fix script only on the type it is written for.
NameFor(s, type, m) ==
  IF s \in FixScripts /\ type # TargetType(s) THEN m ELSE Member(type, m)[3]

\* A nested block declares s with another type than the enclosing block.
Shadows(levels) == \E k \in 1..(Len(levels) - 1) : levels[k + 1] # levels[k]

\* C13: where a nested block declares s again with another type, the
\* accesses of each block are renamed by the declaration in effect there:
\* those of the nested block by its own declaration, those before and after
\* it by the declaration of the enclosing block.
C13_Shadowing ==
  (Ran /\ runs = 1 /\ script \in ShadowScripts /\ Shadows(prog.levels)) =>
     code = RenderNested(prog.levels,
                         [k \in 1..Len(prog.levels) |->
                            NameFor(script, prog.levels[k], prog.member)])

(***************************************************************************)
(* Round trip.  Files of a few chunks, with both kinds of line ending; a   *)
(* script that prints its result and a script that writes it back.         *)
(***************************************************************************)
MaxChunks == 3

Chunks == {<<"x">>, <<".","n">>, <<";">>, <<" ">>, <<"\n">>, <<"\r", "\n">>}

RoundTripScripts == {"fix_field_accesses.py", "complete_expansion.py"}

RoundTripInit ==
  /\ script \in RoundTripScripts
  /\ input \in Texts(Chunks, MaxChunks)
  /\ prog = <<>>
  /\ Fresh

RoundTripNext ==
  \/ fix_field_accesses_py
  \/ complete_expansion_py

RoundTripSpec == RoundTripInit /\ [][RoundTripNext]_vars

\* No rule of the table matches anywhere in the text: for this text the
\* rule set is empty.
NoRuleMatches(rules, t) ==
  \A k \in 1..Len(rules) :
     ~Possible(t, rules[k][1]) \/ MatchStarts(t, rules[k][1]) = {}

\* What a run puts out: the text printed, or the file written back.
Emitted == IF script = "fix_field_accesses.py" THEN out ELSE file

\* C14: a run on a text that no rule matches puts out the text it was given,
\* byte for byte.
C14_RoundTrip ==
  (/\ Ran
   /\ runs = 1
   /\ script \in RoundTripScripts
   /\ NoRuleMatches(RulesOf(script), f_read(input)))
  => Emitted = input

(***************************************************************************)
(* Literals and comments.  Files that hold quotes and comment marks, open  *)
(* or closed.                                                              *)
(***************************************************************************)
MaxLexPieces == 3

LexPieces ==
  {<<"x">>, <<".","n">>, <<"\"">>, <<"'">>, <<"/","*">>, <<"*","/">>, <<"\\", "\"">>, <<"\n">>}

LexScripts == {"fix_field_accesses.py", "complete_expansion.py"}

LexInit ==
  /\ script \in LexScripts
  /\ input \in Texts(LexPieces, MaxLexPieces)
  /\ prog = <<>>
  /\ Fresh

LexNext ==
  \/ fix_field_accesses_py
  \/ complete_expansion_py

LexSpec == LexInit /\ [][LexNext]_vars

\* What position i of a C text is inside of, reading from the start:
\* "code", "string", "char", "block" (a /* comment) or "line" (a // comment).
\* In a literal a backslash takes the next character with it; a literal
\* ends at its quote and is cut short by the end of the line.
RECURSIVE LexMode(_, _, _)
LexMode(t, i, mode) ==
  IF i > Len(t) THEN mode
  ELSE LET two == IF i < Len(t) THEN <<t[i], t[i + 1]>> ELSE <<t[i]>>
       IN  CASE mode = "code" ->
                  IF two = <<"/","*">> THEN LexMode(t, i + 2, "block")
                  ELSE IF two = <<"/","/">> THEN LexMode(t, i + 2, "line")
                  ELSE IF t[i] = "\"" THEN LexMode(t, i + 1, "string")
                  ELSE IF t[i] = "'" THEN LexMode(t, i + 1, "char")
                  ELSE LexMode(t, i + 1, "code")
             [] mode = "block" ->
                  IF two = <<"*","/">> THEN LexMode(t, i + 2, "code")
                  ELSE LexMode(t, i + 1, "block")
             [] mode = "line" ->
                  LexMode(t, i + 1, IF t[i] = "\n" THEN "code" ELSE "line")
             [] mode \in {"string", "char"} ->
                  IF t[i] = "\\" /\ i < Len(t) THEN LexMode(t, i + 2, mode)
                  ELSE IF t[i] = "\n" THEN mode
                  ELSE IF t[i] = (IF mode = "string" THEN "\"" ELSE "'")
                  THEN LexMode(t, i + 1, "code")
                  ELSE LexMode(t, i + 1, mode)

\* The text holds a string literal, a character literal or a comment that
\* is not terminated.
Unterminated(t) == LexMode(t, 1, "code") \in {"string", "char", "block"}

UsageMessages ==
  {"Usage: python3 fix_field_accesses.py ada83.c",
   "Usage: python3 expand_identifiers.py input.c"}

\* The last run took a file (it did not end with the usage message).
TookFile == runs > 0 /\ \A i \in 1..Len(log) : log[i] \notin UsageMessages

\* C15: a run on a file with an unterminated literal or comment fails and
\* reports a LexError; it prints no text and leaves the file as it was.
C15_LexErrorAborts ==
  (TookFile /\ script \in LexScripts /\ Unterminated(input)) =>
     /\ exit # 0
     /\ \E i \in 1..Len(log) : log[i] = "LexError"
     /\ out = <<>>
     /\ file = input

(***************************************************************************)
(* Struct definitions and their uses.  A file that defines one of the      *)
(* struct types whose definition Phase 1 of expand_all rewrites, and a     *)
(* function that accesses one member of a value of that type:              *)
(*   typedef struct{Unsigned_Big_Integer *n, *d;} Rational_Number;         *)
(*   void f(Rational_Number x){x.n;}                                       *)
(***************************************************************************)
\* <<type, definition as ada83.c writes it, abbreviated members>>
StructDefs ==
  { <<<<"R","a","t","i","o","n","a","l","_","N","u","m","b","e","r">>, <<>>
        \o <<"t","y","p","e","d","e","f"," ","s","t","r","u","c","t">> \o <<"{">> \o <<"U","n","s","i","g","n","e","d","_","B","i","g","_","I","n","t","e","g","e","r"," ","*","n",","," ","*","d",";">> \o <<"}">>
        \o <<" ","R","a","t","i","o","n","a","l","_","N","u","m","b","e","r",";">>,
      {<<"n">>, <<"d">>}>>,
    <<<<"S","t","r","i","n","g","_","S","l","i","c","e">>,
      <<"t","y","p","e","d","e","f"," ","s","t","r","u","c","t">> \o <<"{">> \o <<"c","o","n","s","t"," ","c","h","a","r"," ","*","s",";","u","i","n","t","3","2","_","t"," ","n",";">> \o <<"}">>
        \o <<" ","S","t","r","i","n","g","_","S","l","i","c","e",";">>,
      {<<"s">>, <<"n">>}>>,
    <<<<"F","a","t","_","P","o","i","n","t","e","r">>,
      <<"t","y","p","e","d","e","f"," ","s","t","r","u","c","t">> \o <<"{">> \o <<"v","o","i","d"," ","*","d",";","v","o","i","d"," ","*","b",";">> \o <<"}">>
        \o <<" ","F","a","t","_","P","o","i","n","t","e","r",";">>,
      {<<"d">>, <<"b">>}>>,
    <<<<"T","h","r","e","a","d","_","Q","u","e","u","e">>,
      <<"t","y","p","e","d","e","f"," ","s","t","r","u","c","t">> \o <<"{">>
        \o <<"p","t","h","r","e","a","d","_","m","u","t","e","x","_","t"," ","m",";","p","t","h","r","e","a","d","_","c","o","n","d","_","t"," ","c",";","i","n","t"," ","c","n","t",","," ","m","x",";">> \o <<"}">>
        \o <<" ","T","h","r","e","a","d","_","Q","u","e","u","e",";">>,
      {<<"m">>, <<"c">>, <<"c","n","t">>, <<"m","x">>}>>,
    <<<<"S","o","u","r","c","e","_","L","o","c","a","t","i","o","n">>,
      <<"t","y","p","e","d","e","f"," ","s","t","r","u","c","t">> \o <<"{">> \o <<"u","i","n","t","3","2","_","t"," ","l",","," ","c",";","c","o","n","s","t"," ","c","h","a","r"," ","*","f",";">> \o <<"}">>
        \o <<" ","S","o","u","r","c","e","_","L","o","c","a","t","i","o","n",";">>,
      {<<"l">>, <<"c">>, <<"f">>}>>,
    <<<<"L","e","x","e","r">>,
      <<"t","y","p","e","d","e","f"," ","s","t","r","u","c","t">> \o <<"{">>
        \o <<"c","o","n","s","t"," ","c","h","a","r"," ","*","s",","," ","*","c",","," ","*","e",";","u","i","n","t","3","2","_","t"," ","l","n",","," ","c","l",";","c","o","n","s","t"," ","c","h","a","r"," ","*","f",";","T","o","k","e","n","_","K","i","n","d"," ","p","t",";">>
        \o <<"}">> \o <<" ","L","e","x","e","r",";">>,
      {<<"s">>, <<"c">>, <<"e">>, <<"l","n">>, <<"c","l">>, <<"f">>, <<"p","t">>}>> }

\* The file: the definition and the function that uses member m.
RenderUse(def, m, ptr) ==
  def[2] \o <<"v","o","i","d"," ","f","(">> \o def[1] \o (IF ptr THEN <<" ","*","x",")">> ELSE <<" ","x",")">>)
    \o <<"{">> \o (IF ptr THEN <<"x","-",">">> ELSE <<"x",".">>) \o m \o <<";", "}">>

DeclInit ==
  /\ script = "complete_expansion.py"
  /\ \E def \in StructDefs, ptr \in BOOLEAN :
        \E m \in def[3] :
           /\ prog = [type |-> def[1], member |-> m, ptr |-> ptr]
           /\ input = RenderUse(def, m, ptr)
  /\ Fresh

DeclNext == complete_expansion_py

DeclSpec == DeclInit /\ [][DeclNext]_vars

\* The member names the struct definition of a file declares: the
\* identifiers of the body that a comma or a semicolon follows.
DeclaredNames(t) ==
  LET open == Min({i \in 1..Len(t) : t[i] = "{"})
      close == Min({i \in 1..Len(t) : t[i] = "}"})
      ends == {i \in open..close :
                 IsWordAt(t, i) /\ i < Len(t) /\ t[i + 1] \in {",", ";"}}
  IN  {SubSeq(t, Max({j \in open..e : ~IsWordAt(t, j)}) + 1, e) : e \in ends}

\* The member name the function of a file uses: the identifier before the
\* last semicolon.
UsedName(t) ==
  LET e == Len(t) - 2
  IN  SubSeq(t, Max({j \in 1..e : ~IsWordAt(t, j)}) + 1, e)

\* C16: after expand_all the member name the function uses is a member the
\* struct definition of the output declares.
C16_UsesDeclared ==
  (script = "complete_expansion.py" /\ Ran /\ runs = 1 /\ prog # <<>>) =>
     UsedName(code) \in DeclaredNames(code)

(***************************************************************************)
(* One member access, several times.  A file that makes the same access    *)
(* on the variable X up to MaxOccurrences times, each time with other      *)
(* text after it:  X->t;X->t=                                              *)
(***************************************************************************)
MaxOccurrences == 2

Followers == {<<";">>, <<",">>, <<")">>, <<"=">>, <<".","y">>, <<"[">>, <<" ","+">>}

AccessedMembers == {<<"t">>, <<"k">>, <<"l">>, <<"m">>, <<"n">>}

RECURSIVE FollowerSeqs(_)
FollowerSeqs(n) ==
  IF n = 0 THEN {<<>>}
  ELSE LET shorter == FollowerSeqs(n - 1)
       IN  shorter \cup {<<f>> \o s : f \in Followers,
                                      s \in {q \in shorter : Len(q) = n - 1}}

RECURSIVE RenderOccurrences(_, _, _)
RenderOccurrences(access, after, k) ==
  IF k > Len(after) THEN <<>>
  ELSE access \o after[k] \o RenderOccurrences(access, after, k + 1)

ConsistentInit ==
  /\ script = "expand_all_identifiers.py"
  /\ \E op \in {<<"-",">">>, <<".">>}, m \in AccessedMembers,
        after \in FollowerSeqs(MaxOccurrences) \ {<<>>} :
        /\ prog = [access |-> <<"X">> \o op \o m, after |-> after]
        /\ input = RenderOccurrences(prog.access, after, 1)
  /\ Fresh

ConsistentNext == expand_all_identifiers_py

ConsistentSpec == ConsistentInit /\ [][ConsistentNext]_vars

\* What the k-th access of the file has become in the text t: the text from
\* the k-th X up to the text that followed the access.
OccurrenceIn(t, after, k) ==
  LET starts == {i \in 1..Len(t) : t[i] = "X"}
      StartOf(j) == IF j > Cardinality(starts) THEN Len(t) + 1
                    ELSE CHOOSE i \in starts : Cardinality({q \in starts : q < i}) = j - 1
  IN  SubSeq(t, StartOf(k), StartOf(k + 1) - 1 - Len(after[k]))

\* C17: expand_struct_fields rewrites every occurrence of the same access to
\* the same text, whatever follows the occurrence.
C17_SameAccessSameName ==
  (script = "expand_all_identifiers.py" /\ Ran /\ runs = 1 /\ prog # <<>>) =>
     \A j, k \in 1..Len(prog.after) :
        OccurrenceIn(code, prog.after, j) = OccurrenceIn(code, prog.after, k)

(***************************************************************************)
(* Calls.  Files of a few pieces: calls of ps and ln, identifiers that     *)
(* begin with ps and ln, and what can stand before and after them.         *)
(***************************************************************************)
MaxCallPieces == 3

CallPieces ==
  {<<"p","s","(">>, <<"l","n","(">>, <<"p","s","o","m","e","t","h","i","n","g","(">>, <<"l","n","o","t","(">>, <<"x">>, <<"o","t">>, <<"X">>, <<")">>, <<";">>}

CallsInit ==
  /\ script = "expand_all_identifiers.py"
  /\ input \in Texts(CallPieces, MaxCallPieces)
  /\ prog = <<>>
  /\ Fresh

CallsNext == expand_all_identifiers_py

CallsSpec == CallsInit /\ [][CallsNext]_vars

\* The calls of ps and ln, whatever their arguments: the name at a word
\* boundary, followed by the parenthesis.
AnyCall ==
  << <<WB \o L(<<"p","s","(">>), R(<<"p","a","r","s","e","_","s","u","b","p","r","o","g","r","a","m","_","s","p","e","c","(">>)>>,
     <<WB \o L(<<"l","n","(">>), R(<<"l","e","x","e","r","_","n","e","w","(">>)>> >>

\* C18: expand_more_function_names renames every call of ps and ln, whatever
\* the first argument starts with, and nothing else.
C18_EveryCallRenamed ==
  (script = "expand_all_identifiers.py" /\ Ran /\ runs = 1 /\ input \in Texts(CallPieces, MaxCallPieces)) =>
     code = ApplyRules(AnyCall, f_read(input))

(***************************************************************************)
(* Chains.  Statements that access a member of the member l of some base   *)
(* expression:  x.l.l;  x->l.c;  x[i].l.f;  and on a dereferenced pointer. *)
(***************************************************************************)
MaxChains == 2

ChainBases == {<<"x",".">>, <<"x","-",">">>, <<"x","[","i","]",".">>, <<"x","[","i","]","-",">">>, <<"(","*","x",")",".">>}

\* <<member of Source_Location, canonical name>>
LocationMembers ==
  {<<<<"l">>, <<"l","i","n","e">>>>, <<<<"c">>, <<"c","o","l","u","m","n">>>>, <<<<"f">>, <<"f","i","l","e","n","a","m","e">>>>}

Chains == {[base |-> b, member |-> m] : b \in ChainBases, m \in LocationMembers}

RECURSIVE ChainSeqs(_)
ChainSeqs(n) ==
  IF n = 0 THEN {<<>>}
  ELSE LET shorter == ChainSeqs(n - 1)
       IN  shorter \cup {<<c>> \o s : c \in Chains,
                                      s \in {q \in shorter : Len(q) = n - 1}}

\* The statements, with the members under the names of the column given:
\* 1 for the abbreviations, 2 for the canonical names.
RECURSIVE RenderChains(_, _, _)
RenderChains(chains, k, column) ==
  IF k > Len(chains) THEN <<>>
  ELSE chains[k].base
         \o (IF column = 1 THEN <<"l">> ELSE <<"l","o","c","a","t","i","o","n">>) \o <<".">>
         \o chains[k].member[column] \o <<";">>
         \o RenderChains(chains, k + 1, column)

ChainsInit ==
  /\ script = "apply_all_field_fixes.py"
  /\ prog \in ChainSeqs(MaxChains) \ {<<>>}
  /\ input = RenderChains(prog, 1, 1)
  /\ Fresh

ChainsNext == apply_all_field_fixes_py

ChainsSpec == ChainsInit /\ [][ChainsNext]_vars

\* C19: apply_all_fixes renames a member accessed on the member l as a member
\* of Source_Location, whatever the base expression: <base>location.line,
\* <base>location.column, <base>location.filename.
C19_ChainOnAnyBase ==
  (script = "apply_all_field_fixes.py" /\ Ran /\ runs = 1 /\ prog \in ChainSeqs(MaxChains)) =>
     code = RenderChains(prog, 1, 2)

(***************************************************************************)
(* Accesses that several rules of fix_field_accesses name.  Files of a few *)
(* pieces: the accesses ->s, ->n, .er and ->er, the names the later rules  *)
(* for ->s and ->n would give, and what can stand after an access.         *)
(***************************************************************************)
MaxFirstPieces == 3

FirstPieces ==
  {<<"-",">","s">>, <<"-",">","n">>, <<".","e","r">>, <<"-",">","e","r">>, <<";">>, <<"t","r","i","n","g">>, <<"-",">","s","t","r","i","n","g">>, <<"-",">","l","e","n","g","t","h">>}

FirstInit ==
  /\ script = "fix_field_accesses.py"
  /\ input \in Texts(FirstPieces, MaxFirstPieces)
  /\ prog = <<>>
  /\ Fresh

FirstNext == fix_field_accesses_py

FirstSpec == FirstInit /\ [][FirstNext]_vars

\* For each of the accesses, the earliest rule of the script that names it:
\* lines 20, 16, 124 and 144.
Earliest ==
  << <<L(<<"-",">","s">>) \o WB, R(<<"-",">","i","s","_","n","e","g","a","t","i","v","e">>)>>,
     <<L(<<"-",">","n">>) \o WB, R(<<"-",">","c","o","u","n","t">>)>>,
     <<L(<<".","e","r">>) \o WB, R(<<".","e","n","u","m","_","r","e","p">>)>>,
     <<L(<<"-",">","e","r">>) \o WB, R(<<"-",">","e","r","r","o","r","_","c","o","u","n","t">>)>> >>

\* How often the literal text s stands in t.
Occurrences(s, t) ==
  Cardinality({j \in 1..(Len(t) - Len(s) + 1) : SubSeq(t, j, j + Len(s) - 1) = s})

MaxBoolPieces == 3

BoolPieces == {<<"&","&">>, <<"|","|">>, <<"!">>, <<"=">>, <<"b">>, <<"(">>, <<" ">>}

BoolInit ==
  /\ script = "reformat_v2.py"
  /\ input \in Texts(BoolPieces, MaxBoolPieces)
  /\ prog = <<>>
  /\ Fresh

BoolNext == reformat_v2_py

BoolSpec == BoolInit /\ [][BoolNext]_vars

\* The ! at place i of the text is one of a !! sequence or the ! of a !=.
NotANegation(t, i) ==
  \/ i > 1 /\ t[i - 1] = "!"
  \/ i < Len(t) /\ t[i + 1] \in {"!", "="}

\* The text from place i on with && as and, || as or, and a ! that negates
\* an identifier or a parenthesised expression as not.
RECURSIVE BooleanWords(_, _)
BooleanWords(t, i) ==
  IF i > Len(t) THEN <<>>
  ELSE IF i < Len(t) /\ t[i] = "&" /\ t[i + 1] = "&"
  THEN <<" ","a","n","d"," ">> \o BooleanWords(t, i + 2)
  ELSE IF i < Len(t) /\ t[i] = "|" /\ t[i + 1] = "|"
  THEN <<" ","o","r"," ">> \o BooleanWords(t, i + 2)
  ELSE LET operand == i + 1 + RunLen(t, i + 1, Space, FALSE)
       IN  IF /\ t[i] = "!"
              /\ ~NotANegation(t, i)
              /\ operand <= Len(t)
              /\ t[operand] \in Lower \cup Upper \cup {"_", "("}
           THEN <<"n","o","t"," ">> \o BooleanWords(t, operand)
           ELSE <<t[i]>> \o BooleanWords(t, i + 1)

\* C21: replace_boolean_operators rewrites every && to and, every || to or,
\* and a ! to not only where it negates an identifier or a parenthesised
\* expression; the ! of a != and both ! of a !! stay.
C21_BooleanOperators ==
  (script = "reformat_v2.py" /\ Ran /\ input \in Texts(BoolPieces, MaxBoolPieces)) =>
     code = BooleanWords(f_read(input), 1)

(***************************************************************************)
(* fix_code_blocks, called at line 189 of clean_document.  The content is  *)
(* a text of a few lines: markers, a line of code, lines of prose (one     *)
(* indented) and blank lines.  code holds the content, input the content   *)
(* before the call.                                                        *)
(***************************************************************************)
MaxBlockLines == 5

BlockLines ==
  {<<Backquote, Backquote, Backquote>>, <<"x",";">>, <<"a">>, <<" ","a">>, <<>>}

RECURSIVE LineSeqs(_, _)
LineSeqs(kinds, n) ==
  IF n = 0 THEN {<<>>}
  ELSE LET shorter == LineSeqs(kinds, n - 1)
       IN  shorter \cup {<<l>> \o s : l \in kinds,
                                      s \in {q \in shorter : Len(q) = n - 1}}

BlocksInit ==
  /\ script = "fix_docs.py"
  /\ \E lines \in LineSeqs(BlockLines, MaxBlockLines) : input = join(lines)
  /\ code = input
  /\ file = <<>>
  /\ out = <<>>
  /\ log = <<>>
  /\ exit = 0
  /\ runs = 0
  /\ prog = <<>>
  /\ docs = <<>>
  /\ success_count = 0
  /\ encoding = "utf-8"

\* Lines 188-189: print("  Fixing code blocks..."); content = fix_code_blocks(content).
fix_code_blocks_call ==
  /\ script = "fix_docs.py"
  /\ runs < MaxRuns
  /\ code' = fix_code_blocks(code)
  /\ log' = Append(log, <<"  Fixing code blocks...">>)
  /\ runs' = runs + 1
  /\ UNCHANGED <<script, input, file, out, exit, prog, docs, success_count, encoding>>

BlocksNext == fix_code_blocks_call

BlocksSpec == BlocksInit /\ [][BlocksNext]_vars

Markers(lines) == {k \in 1..Len(lines) : IsMarker(lines[k])}

\* The lines with the fences paired in order, the first marker opening, the
\* second closing, and so on: a block whose content looks like code keeps
\* both markers, any other block loses both.
RECURSIVE PairedBlocks(_, _)
PairedBlocks(lines, i) ==
  IF i > Len(lines) THEN <<>>
  ELSE IF ~IsMarker(lines[i])
  THEN <<lines[i]>> \o PairedBlocks(lines, i + 1)
  ELSE LET later == {k \in Markers(lines) : k > i}
           j == IF later = {} THEN Len(lines) + 1 ELSE Min(later)
           content_lines == SubSeq(lines, i + 1, j - 1)
           fence == IF \E k \in 1..Len(content_lines) : LooksLikeCode(content_lines[k])
                    THEN <<lines[i]>> ELSE <<>>
       IN  fence \o content_lines \o fence \o PairedBlocks(lines, j + 1)

\* C22: of a content whose fences are all closed, fix_code_blocks keeps both
\* markers of every block that looks like code and removes both markers of
\* every other block; the markers of the result are paired.
C22_FencesPaired ==
  (script = "fix_docs.py" /\ runs = 1
     /\ log = << <<"  Fixing code blocks...">> >>
     /\ Cardinality(Markers(split(input))) % 2 = 0)
  => /\ code = join(PairedBlocks(split(input), 1))
     /\ Cardinality(Markers(split(code))) % 2 = 0

\* The lines of a sequence that are not markers, in order.
NonMarkers(lines) == SelectSeq(lines, LAMBDA l : ~IsMarker(l))

\* The sequences of lines that '\n'.join makes the text of: the empty text
\* is the join of no line and of one empty line.
JoinedTo(t) == IF t = <<>> THEN {<<>>, << <<>> >>} ELSE {split(t)}

\* C23: fix_code_blocks drops and alters no content: the lines of its result
\* that are not markers are those of the content, unchanged and in order, and
\* every line of the result is a line of the content.
C23_ContentKept ==
  (script = "fix_docs.py" /\ runs = 1 /\ log = << <<"  Fixing code blocks...">> >>)
  => \E result \in JoinedTo(code) :
        /\ NonMarkers(result) = NonMarkers(split(input))
        /\ \A k \in 1..Len(result) :
              \E i \in 1..Len(split(input)) : result[k] = split(input)[i]

\* The call on a fenced indented line of prose: the markers go, the line
\* stays as it is.
C23_Witness ==
  /\ script = "fix_docs.py"
  /\ runs = 1
  /\ log = << <<"  Fixing code blocks...">> >>
  /\ input = <<Backquote, Backquote, Backquote, "\n", " ", "a", "\n",
               Backquote, Backquote, Backquote>>
  /\ code = <<" ","a">>

(***************************************************************************)
(* remove_excessive_blank_lines, called at line 195 of clean_document (the *)
(* same loop is clean_extra_blanks of format_gnat_design.py and the end of *)
(* clean_gnat_design of format_gnat_comprehensive.py).  The content is a   *)
(* text of a few characters and newlines.                                  *)
(***************************************************************************)
MaxBlankPieces == 6

BlankPieces == {<<"\n">>, <<"a">>, <<"b">>}

BlanksInit ==
  /\ script = "fix_docs.py"
  /\ input \in Texts(BlankPieces, MaxBlankPieces)
  /\ code = input
  /\ file = <<>>
  /\ out = <<>>
  /\ log = <<>>
  /\ exit = 0
  /\ runs = 0
  /\ prog = <<>>
  /\ docs = <<>>
  /\ success_count = 0
  /\ encoding = "utf-8"

\* Lines 194-195: print("  Removing excessive blank lines...");
\* content = remove_excessive_blank_lines(content).
remove_excessive_blank_lines_call ==
  /\ script = "fix_docs.py"
  /\ runs < MaxRuns
  /\ code' = remove_excessive_blank_lines(code)
  /\ log' = Append(log, <<"  Removing excessive blank lines...">>)
  /\ runs' = runs + 1
  /\ UNCHANGED <<script, input, file, out, exit, prog, docs, success_count, encoding>>

BlanksNext == remove_excessive_blank_lines_call

BlanksSpec == BlanksInit /\ [][BlanksNext]_vars

\* The lines of a text file: each newline ends a line, and what stands
\* after the last newline is a line if it is not empty.
FileLines(t) ==
  LET lines == split(t)
  IN  IF lines[Len(lines)] = <<>> THEN SubSeq(lines, 1, Len(lines) - 1) ELSE lines

\* C24: after remove_excessive_blank_lines no three lines in a row are blank,
\* at the start and at the end of the text as elsewhere, and the lines that
\* are not blank are those of the content, unchanged and in order.
C24_AtMostTwoBlanks ==
  (script = "fix_docs.py" /\ runs = 1
     /\ log = << <<"  Removing excessive blank lines...">> >>)
  => LET lines == FileLines(code)
     IN  /\ \A k \in 1..(Len(lines) - 2) :
               ~(lines[k] = <<>> /\ lines[k + 1] = <<>> /\ lines[k + 2] = <<>>)
         /\ SelectSeq(lines, LAMBDA l : l # <<>>)
              = SelectSeq(FileLines(input), LAMBDA l : l # <<>>)
====
